---- MODULE Spec2Model ----
(***************************************************************************)
(* A model of the reddit-ingestion service (internal/scraper/service.go,   *)
(* internal/parser/parser.go): the listing walkers (ScrapeSubreddit,       *)
(* fetchUserPosts, fetchUserComments, Search) and the comment expansion    *)
(* engine behind ScrapePost.                                               *)
(***************************************************************************)
EXTENDS Integers, Sequences, FiniteSets, TLC

VARIABLES
    \* ---- listing walkers ----
    walker,      \* which walker runs: "subreddit", "userPosts", "userComments", "search", or "none"
    since,       \* sinceTimestamp argument
    limit,       \* limit argument
    posts,       \* the accumulated items (posts / comments of the walker)
    after,       \* the cursor the next request will carry
    pageCount,   \* pageCount of the loop
    pages,       \* history: the pages upstream has served, in order
    sent,        \* history: the cursor carried by each page request
    got,         \* history: the next-cursor each served page carried
    wpc,         \* "loop" while the walker runs, "done" once it has returned
    ret,         \* the list the walker returned (<<>> for nil)
    werr,        \* the error the walker returned: "nil", "ctx", "fetch", "parse"
    stopReason,  \* which exit of the walker was taken
    \* ---- comment expansion (ScrapePost) ----
    forest,      \* detail.Comments
    epc,         \* "initial" (post fetch); "find", "fetch", "place" inside a round; "done"; "idle"
    iteration,   \* iteration of the loop of expandCommentsFast
    remainingIDs,
    stuckCount,
    tasks,       \* moreSets of the round, those not yet grafted
    results,     \* the comments fetched for the tasks of the round, in task order
    cancelled,   \* ctx.Err() != nil
    exitReason,  \* which break left the loop: "noTasks", "stuck", "cap"
    rounds,      \* history: rounds in which tasks were handed to the workers
    thread,      \* which upstream answers load-more: "finite", "endless", "graft", "post" or "full"
    budget,      \* non-empty load-more answers the finite upstream has left
    initial,     \* history: the forest as the decoder handed it to the engine
    arrived,     \* history: the task indexes of the round's results, as they came in
    perr,        \* the error ScrapePost returned, "nil" for none
    faults,      \* history: how load-more requests of this scrape have failed
    \* ---- retrying HTTP client (pkg/utils/proxy_client.go) and its callers ----
    caller,      \* who calls Do: "json" (FetchJSON), "more" (FetchMoreComments), "direct", or "none"
    maxRetries,  \* c.maxRetries
    userAgent,   \* c.userAgent, also r.userAgent of the reddit client
    randomUA,    \* shouldUseRandomUserAgents()
    reqUA,       \* req.Header.Get("User-Agent"), "" when the header is absent
    hasBody,     \* req.Body != nil when Do is entered
    reqBody,     \* reqBody of Do: the bytes read from the request body
    stream,      \* what is left to read of req.Body
    attempt,     \* attempt of the loop of Do
    dpc,         \* "call", "send" (in c.client.Do), "sleep" (in time.Sleep), "done"; "idle"
    tries,       \* history: calls of c.client.Do made by this call of Do
    last,        \* history: how the latest attempt ended
    waited,      \* history: seconds slept right before the latest attempt
    wire,        \* history: the latest request that went upstream
    dret,        \* what Do returned
    ctxDone,     \* the request context is cancelled
    retry,       \* retry of the loop of FetchMoreComments
    fpc,         \* "inDo", "sleep" (backoff), "sleep429", "done"; "idle"
    fret,        \* what FetchMoreComments returned
    \* ---- proxy rotator ----
    parsedURLs,  \* r.parsedURLs
    currentIdx,  \* r.currentIdx
    calls,       \* history: the GetProxyForID calls made, [id, got]
    nexts,       \* history: what the NextProxy calls returned, in the order of their increments
    \* ---- HTTP handlers (internal/handler/http) and ScrapeUserActivity ----
    endpoint,    \* "subreddit", "user", "search", or "none"
    query,       \* the query parameters of the request, as the strings they came as
    hpc,         \* "recv", "about" (profile request), "svc" (walkers running), "done"; "idle"
    hstatus,     \* the status the handler answered with, 0 before
    hmsg,        \* the parameter a 400 answer names
    args,        \* the arguments the handler passed to the service
    profiled,    \* history: the profile request of ScrapeUserActivity went upstream
    sibling,     \* the other walker of ScrapeUserActivity: "run", "ok", "err"; "none"
    siblingLate, \* history: the walker followed in detail had returned when the other one ended
    serr,        \* the error the service returned to the handler: "nil", or where it came from
    \* ---- concurrent requests through one TLSFingerprintingTransport ----
    tpc,         \* per request: "start", "dialer", "send", "done"
    tProxy,      \* t.transport.Proxy: the position of the proxy in the pool, 0 for none
    tDial,       \* t.transport.DialTLSContext: the dialer whose method it is
    treq,        \* per request: scheme, proxy picked, browser of the headers, what the dial used
    writes,      \* history: the fields shared by all requests that were written
    \* ---- the goroutines of one round of expandCommentsFast ----
    ppc,           \* the loop: "start", "dispatch", "collect", "graft", "done"; "idle"
    pidx,          \* the task the dispatch loop is at
    commentSets,   \* the task channel
    setsClosed,    \* close(commentSets) was called
    resultsCh,     \* the results channel
    resultsClosed, \* close(results) was called
    wg,            \* the WaitGroup of the workers
    wk,            \* per worker: position, task in hand, its batch goroutines that wait for
                   \* the semaphore (sem) and that hold it (flight), allComments
    closer,        \* the goroutine that waits for the workers: "wait", "done"; "none"
    taken,         \* history: how many times each task was received by a worker
    \* ---- a function of the program called on its own ----
    rcall,       \* the arguments of the call (for replacePlaceholder: the list, the placeholder
                 \* id, the fetched comments, whether the array has room for them); <<>> before
    rgot,        \* what the call returned, and made of its arguments; <<>> before
    \* ---- ScrapeUserActivity and its two goroutines ----
    apc,         \* ScrapeUserActivity: "about", "wait", "check", "done"; "idle"
    gr,          \* per goroutine: pc ("none", "run", "send", "done") and what its walker returned
    chans,       \* postsChan and commentsChan: what is buffered, and whether closed
    awg,         \* the WaitGroup of the two goroutines
    errs,        \* postsErr and commentsErr
    activity     \* what ScrapeUserActivity returned: Posts, Comments and the error

wvars == <<walker, since, limit, posts, after, pageCount, pages, sent, got, wpc, ret, werr, stopReason>>

evars == <<forest, epc, iteration, remainingIDs, stuckCount, tasks, results, cancelled,
           exitReason, rounds, thread, budget, initial, arrived, perr, faults>>

dvars == <<caller, maxRetries, userAgent, randomUA, reqUA, hasBody, reqBody, stream, attempt,
           dpc, tries, last, waited, wire, dret, ctxDone, retry, fpc, fret>>

pvars == <<parsedURLs, currentIdx, calls, nexts>>

cvars == <<dvars, pvars>>

hvars == <<endpoint, query, hpc, hstatus, hmsg, args, profiled, sibling, siblingLate, serr>>

tvars == <<tpc, tProxy, tDial, treq, writes>>

\* the parts added beside the handlers
kvars == <<ppc, pidx, commentSets, setsClosed, resultsCh, resultsClosed, wg, wk, closer, taken>>

rvars == <<rcall, rgot>>

avars == <<apc, gr, chans, awg, errs, activity>>

yvars == <<tvars, kvars, rvars, avars>>

\* the parts added around the walkers, the expansion engine and the client
xvars == <<hvars, yvars>>

\* everything but the transport
tOthers == <<wvars, evars, cvars, hvars, kvars, rvars, avars>>

\* what a round leaves alone: all but the tree, the tasks and the results gathered
kOthers == <<wvars, cvars, hvars, tvars, rvars, avars, epc, iteration, remainingIDs, stuckCount, cancelled,
             exitReason, rounds, thread, budget, initial, perr, faults>>

vars == <<wvars, evars, cvars, xvars>>

(***************************************************************************)
(* Bounds of the model.                                                    *)
(***************************************************************************)
MaxFetch == 2        \* upstream serves at most this many pages to one walk
MaxPageLen == 2      \* items per upstream page
SinceT == 2          \* the positive since_timestamp the walks are tried with

Min(a, b) == IF a < b THEN a ELSE b

\* creation instants of upstream items: before, at and after the cutoff
Instants == {SinceT - 1, SinceT, SinceT + 1}
Sinces == {0, SinceT}
Limits == {-1, 0, 1, 3}
\* cursors are opaque tokens: <<>> is the empty string, <<k>> the token of page k
NoCursor == <<>>
Cursors(k) == {NoCursor, <<k>>}
Walkers == {"subreddit", "userPosts", "userComments", "search"}

SeqSum(s) == LET RECURSIVE Sum(_)
                 Sum(i) == IF i = 0 THEN 0 ELSE Len(s[i]) + Sum(i - 1)
             IN Sum(Len(s))

Flatten(s) == LET RECURSIVE Cat(_)
                  Cat(i) == IF i = 0 THEN <<>> ELSE Cat(i - 1) \o s[i]
              IN Cat(Len(s))

\* the upstream pages a fetch may return: n items with fresh ids, any instants
UpstreamPages(base) ==
    UNION { { [i \in 1..n |-> [id |-> base + i, created |-> ts[i]]] : ts \in [1..n -> Instants] }
            : n \in 0..MaxPageLen }

(***************************************************************************)
(* The per-item filter and the stop rules of the walkers.                  *)
(***************************************************************************)
\* IsOld with the comparison turned round
IsOldReversed(item, s) == s > 0 /\ item.created > s

\* service.go:128 (and 331, 460, 1220): an item older than the cutoff is dropped
IsOld(item, s) == s > 0 /\ item.created < s

\* Kept that keeps the items older than the cutoff as well
KeptEvery(page, s) == page

Kept(page, s) == SelectSeq(page, LAMBDA p : ~IsOld(p, s))

\* ReachedTimeLimit that never records the cutoff
ReachedTimeLimitNever(page, s) == FALSE

\* service.go:124-131 (and 1216-1223): reachedTimeLimit after the filter loop
ReachedTimeLimit(page, s) == \E i \in 1..Len(page) : IsOld(page[i], s)

\* ApplyLimit without the truncation
ApplyLimitNone(ps, l) == ps

\* service.go:175-177 (and 1263-1265)
ApplyLimit(ps, l) == IF l > 0 /\ Len(ps) > l THEN SubSeq(ps, 1, l) ELSE ps

\* SubredditMaxPages with a wider ceiling for the walk without limit
SubredditMaxPagesWide(s, l) == IF l = -1 THEN 1001 ELSE 20

\* service.go:88-101
SubredditMaxPages(s, l) == IF l = -1 THEN 1000 ELSE 20

\* UserNeedMultiplePages with "and" for "or" in the default case
UserNeedMultiplePagesAnd(s, l) ==
    IF l = 0 THEN FALSE ELSE IF l = -1 THEN TRUE ELSE l > 25 /\ s > 0

\* service.go:274-300 (and 403-429)
UserNeedMultiplePages(s, l) ==
    IF l = 0 THEN FALSE ELSE IF l = -1 THEN TRUE ELSE l > 25 \/ s > 0

UserMaxPages(s, l) ==
    IF l = 0 THEN 1
    ELSE IF l = -1 THEN (IF s > 0 THEN 1000 ELSE 500)
    ELSE Min(50, ((l \div 25) + 1) * 2)

\* service.go:1159-1162
SearchLimit(s, l) == IF l = -1 /\ s = 0 THEN 1000 ELSE l

\* service.go:1164-1169
SearchApiLimit(l) == IF l > 0 /\ l < 100 THEN l ELSE 100

\* service.go:1176-1186, on the coerced limit
SearchMaxPages(s, l) ==
    IF l = -1 /\ s > 0 THEN 1000
    ELSE IF l > 0 THEN ((l + SearchApiLimit(l) - 1) \div SearchApiLimit(l)) * 2
    ELSE 10

\* service.go:329-344: the user walkers append item by item and return as soon
\* as the limit is reached, in the middle of the page
RECURSIVE UserScan(_, _, _, _, _, _)
UserScan(page, i, acc, reached, count, s_l) ==
    IF i > Len(page) THEN [posts |-> acc, reached |-> reached, count |-> count, hit |-> FALSE]
    ELSE IF IsOld(page[i], s_l[1]) THEN UserScan(page, i + 1, acc, TRUE, count, s_l)
    ELSE LET acc2 == Append(acc, page[i]) IN
         IF s_l[2] > 0 /\ Len(acc2) >= s_l[2]
         THEN [posts |-> acc2, reached |-> reached, count |-> count + 1, hit |-> TRUE]
         ELSE UserScan(page, i + 1, acc2, reached, count + 1, s_l)

\* the expansion engine is not running
ExpandIdle ==
    /\ forest = <<>> /\ epc = "idle" /\ iteration = 0 /\ remainingIDs = 0
    /\ stuckCount = 0 /\ tasks = <<>> /\ results = <<>> /\ cancelled = FALSE
    /\ exitReason = "none" /\ rounds = 0 /\ thread = "none" /\ budget = 0
    /\ initial = <<>> /\ arrived = <<>> /\ perr = "nil" /\ faults = {}

\* no attempt has been made yet
NoOutcome == [class |-> "none", status |-> 0, cause |-> "none"]

\* nothing has been returned yet
NoReturn == [kind |-> "none", msg |-> "", count |-> <<>>, cause |-> "none", status |-> 0, body |-> <<>>]

\* nothing went upstream yet
NoWire == [sent |-> FALSE, ua |-> "", body |-> <<>>, proxy |-> 0]

\* the proxy rotator is not exercised
ProxyIdle == parsedURLs = <<>> /\ currentIdx = 0 /\ calls = <<>> /\ nexts = <<>>

\* the HTTP client is not running
DoIdle ==
    /\ maxRetries = 0 /\ userAgent = "" /\ randomUA = FALSE /\ reqUA = ""
    /\ hasBody = FALSE /\ reqBody = <<>> /\ stream = <<>> /\ attempt = 0 /\ dpc = "idle"
    /\ tries = 0 /\ last = NoOutcome /\ waited = 0 /\ wire = NoWire /\ dret = NoReturn
    /\ ctxDone = FALSE /\ retry = 0 /\ fpc = "idle" /\ fret = NoReturn

ClientIdle == caller = "none" /\ DoIdle /\ ProxyIdle

NoArgs == [since |-> 0, limit |-> 0, commentLimit |-> 0]

NoQuery == [name |-> <<>>, since |-> <<>>, limit |-> <<>>, commentLimit |-> <<>>, after |-> <<>>]

\* no request is being handled
HandlerIdle ==
    /\ endpoint = "none" /\ query = NoQuery /\ hpc = "idle" /\ hstatus = 0 /\ hmsg = ""
    /\ args = NoArgs /\ profiled = FALSE /\ sibling = "none" /\ siblingLate = FALSE
    /\ serr = "nil"

NoDialer == [proxy |-> 0, hello |-> "none"]

\* no request is in the transport
TransportIdle == tpc = <<>> /\ tProxy = 0 /\ tDial = NoDialer /\ treq = <<>> /\ writes = {}

\* no round is taken apart into its goroutines
PoolIdle ==
    /\ ppc = "idle" /\ pidx = 0 /\ commentSets = <<>> /\ setsClosed = FALSE
    /\ resultsCh = <<>> /\ resultsClosed = FALSE /\ wg = 0 /\ wk = <<>>
    /\ closer = "none" /\ taken = <<>>

\* replacePlaceholder is not called on its own
ReplaceIdle == rcall = <<>> /\ rgot = <<>>

Walkers2 == {"posts", "comments"}

NoActivity == [Posts |-> <<>>, Comments |-> <<>>, err |-> "none"]

\* ScrapeUserActivity is not followed goroutine by goroutine
ActivityIdle ==
    /\ apc = "idle" /\ gr = [w \in Walkers2 |-> [pc |-> "none", list |-> <<>>]]
    /\ chans = [w \in Walkers2 |-> [buf |-> <<>>, closed |-> FALSE]]
    /\ awg = 0 /\ errs = [w \in Walkers2 |-> "nil"] /\ activity = NoActivity

BesidesIdle == TransportIdle /\ PoolIdle /\ ReplaceIdle /\ ActivityIdle

\* none of the parts around the walkers, the engine and the client is in use
OthersIdle == HandlerIdle /\ BesidesIdle

(***************************************************************************)
(* The walkers, one loop iteration per step.                               *)
(***************************************************************************)
Return(r, e, why) ==
    /\ wpc' = "done"
    /\ ret' = r
    /\ werr' = e
    /\ stopReason' = why

Served(page, nextAfter) ==
    /\ pages' = Append(pages, page)
    /\ got' = Append(got, nextAfter)
    /\ sent' = Append(sent, after)
    /\ pageCount' = pageCount + 1

NotServed == UNCHANGED <<pages, sent, got, pageCount>>

\* service.go:56-77: no timestamp and limit 0, the first page only
SubredditFirstPage ==
    /\ walker = "subreddit" /\ wpc = "loop"
    /\ since = 0 /\ limit = 0
    /\ Len(pages) < MaxFetch
    /\ \/ /\ Return(<<>>, "fetch", "fetchErr") /\ NotServed /\ UNCHANGED <<posts, after>>
       \/ /\ Return(<<>>, "parse", "parseErr") /\ NotServed /\ UNCHANGED <<posts, after>>
       \/ \E page \in UpstreamPages(SeqSum(pages)), nextAfter \in Cursors(Len(pages) + 1) :
            /\ Served(page, nextAfter)
            /\ posts' = posts \o page
            /\ Return(posts', "nil", "firstPage")
            /\ UNCHANGED after
    /\ UNCHANGED <<walker, since, limit>>
    /\ UNCHANGED <<evars, cvars, xvars>>

\* service.go:103: the loop condition of ScrapeSubreddit
SubredditGuard ==
    /\ walker = "subreddit" /\ wpc = "loop"
    /\ ~(since = 0 /\ limit = 0)
    /\ pageCount < SubredditMaxPages(since, limit)

\* service.go:108-172: the iteration once the page has been fetched and parsed
SubredditServed(page, nextAfter, late) ==
    LET kept == Kept(page, since)
        all == posts \o kept
    IN /\ Served(page, nextAfter)
       /\ posts' = all
       /\ IF limit > 0 /\ Len(all) >= limit
          THEN Return(ApplyLimit(all, limit), "nil", "limit") /\ UNCHANGED after
          ELSE IF ReachedTimeLimit(page, since)
          THEN Return(ApplyLimit(all, limit), "nil", "time") /\ UNCHANGED after
          ELSE IF nextAfter = NoCursor \/ Len(kept) = 0
          THEN Return(ApplyLimit(all, limit), "nil", "empty") /\ UNCHANGED after
          ELSE /\ after' = nextAfter
               /\ IF late /\ Len(all) > 0
                  THEN Return(ApplyLimit(all, limit), "nil", "deadline")
                  ELSE IF pageCount + 1 >= SubredditMaxPages(since, limit)
                  THEN Return(ApplyLimit(all, limit), "nil", "ceiling")
                  ELSE UNCHANGED <<wpc, ret, werr, stopReason>>

\* service.go:103-180: one iteration of the page loop, and the return after it
SubredditPage ==
    /\ SubredditGuard
    /\ Len(pages) < MaxFetch
    /\ \/ /\ Return(posts, "ctx", "ctx") /\ NotServed /\ UNCHANGED <<posts, after>>
       \/ /\ Return(<<>>, "fetch", "fetchErr") /\ NotServed /\ UNCHANGED <<posts, after>>
       \/ /\ Return(<<>>, "parse", "parseErr") /\ NotServed /\ UNCHANGED <<posts, after>>
       \/ \E page \in UpstreamPages(SeqSum(pages)), nextAfter \in Cursors(Len(pages) + 1), late \in BOOLEAN :
            SubredditServed(page, nextAfter, late)
    /\ UNCHANGED <<walker, since, limit>>
    /\ UNCHANGED <<evars, cvars, xvars>>

\* service.go:307 (and 437): the loop condition of the user walkers
UserGuard(w) ==
    /\ walker = w /\ wpc = "loop"
    /\ pageCount < UserMaxPages(since, limit)

\* service.go:312-380 (and 442-507): the iteration once the page has been fetched and parsed
UserServed(page, nextAfter, late) ==
    LET scan == UserScan(page, 1, posts, FALSE, 0, <<since, limit>>)
    IN /\ Served(page, nextAfter)
       /\ posts' = scan.posts
       /\ IF scan.hit
          THEN Return(scan.posts, "nil", "limit") /\ UNCHANGED after
          ELSE IF scan.reached /\ since > 0
          THEN Return(scan.posts, "nil", "time") /\ UNCHANGED after
          ELSE IF ~UserNeedMultiplePages(since, limit)
          THEN Return(scan.posts, "nil", "single") /\ UNCHANGED after
          ELSE IF nextAfter = NoCursor \/ scan.count = 0
          THEN Return(scan.posts, "nil", "empty") /\ UNCHANGED after
          ELSE /\ after' = nextAfter
               /\ IF late /\ Len(scan.posts) > 0
                  THEN Return(scan.posts, "nil", "deadline")
                  ELSE IF pageCount + 1 >= UserMaxPages(since, limit)
                  THEN Return(scan.posts, "nil", "ceiling")
                  ELSE UNCHANGED <<wpc, ret, werr, stopReason>>

\* service.go:307-383 (fetchUserPosts) and 437-510 (fetchUserComments)
UserPage(w) ==
    /\ UserGuard(w)
    /\ Len(pages) < MaxFetch
    /\ \/ /\ Return(<<>>, "ctx", "ctx") /\ NotServed /\ UNCHANGED <<posts, after>>
       \/ /\ Return(<<>>, "fetch", "fetchErr") /\ NotServed /\ UNCHANGED <<posts, after>>
       \/ /\ Return(<<>>, "parse", "parseErr") /\ NotServed /\ UNCHANGED <<posts, after>>
       \/ \E page \in UpstreamPages(SeqSum(pages)), nextAfter \in Cursors(Len(pages) + 1), late \in BOOLEAN :
            UserServed(page, nextAfter, late)
    /\ UNCHANGED <<walker, since, limit>>
    /\ UNCHANGED <<evars, cvars, xvars>>

FetchUserPostsPage == UserPage("userPosts")

FetchUserCommentsPage == UserPage("userComments")

\* service.go:1188: the loop condition of Search, on the coerced limit
SearchGuard ==
    /\ walker = "search" /\ wpc = "loop"
    /\ pageCount < SearchMaxPages(since, SearchLimit(since, limit))

\* service.go:1194-1260: the iteration once the page has been fetched and parsed.
\* The request carries the local `after` (Served): whatever the parameter map
\* held under "after" is overwritten or deleted before the URL is built
\* (service.go:1197-1201).
SearchServed(page, nextAfter, late) ==
    LET lim == SearchLimit(since, limit)
        kept == Kept(page, since)
        all == posts \o kept
    IN /\ Served(page, nextAfter)
       /\ posts' = all
       /\ IF lim > 0 /\ Len(all) >= lim
          THEN Return(ApplyLimit(all, lim), "nil", "limit") /\ UNCHANGED after
          ELSE IF ReachedTimeLimit(page, since) /\ since > 0
          THEN Return(ApplyLimit(all, lim), "nil", "time") /\ UNCHANGED after
          ELSE IF nextAfter = NoCursor \/ Len(kept) = 0
          THEN Return(ApplyLimit(all, lim), "nil", "empty") /\ UNCHANGED after
          ELSE /\ after' = nextAfter
               /\ IF late /\ Len(all) > 0
                  THEN Return(ApplyLimit(all, lim), "nil", "deadline")
                  ELSE IF pageCount + 1 >= SearchMaxPages(since, lim)
                  THEN Return(ApplyLimit(all, lim), "nil", "ceiling")
                  ELSE UNCHANGED <<wpc, ret, werr, stopReason>>

\* service.go:1188-1268
SearchPage ==
    /\ SearchGuard
    /\ Len(pages) < MaxFetch
    /\ \/ /\ Return(posts, "ctx", "ctx") /\ NotServed /\ UNCHANGED <<posts, after>>
       \/ /\ Return(<<>>, "fetch", "fetchErr") /\ NotServed /\ UNCHANGED <<posts, after>>
       \/ /\ Return(<<>>, "parse", "parseErr") /\ NotServed /\ UNCHANGED <<posts, after>>
       \/ \E page \in UpstreamPages(SeqSum(pages)), nextAfter \in Cursors(Len(pages) + 1), late \in BOOLEAN :
            SearchServed(page, nextAfter, late)
    /\ UNCHANGED <<walker, since, limit>>
    /\ UNCHANGED <<evars, cvars, xvars>>

InitWalk ==
    /\ walker \in Walkers
    /\ since \in Sinces
    /\ limit \in Limits
    /\ posts = <<>>
    /\ after = NoCursor
    /\ pageCount = 0
    /\ pages = <<>>
    /\ sent = <<>>
    /\ got = <<>>
    /\ wpc = "loop"
    /\ ret = <<>>
    /\ werr = "nil"
    /\ stopReason = "none"
    /\ ExpandIdle
    /\ ClientIdle
    /\ OthersIdle

NextWalk ==
    \/ SubredditFirstPage
    \/ SubredditPage
    \/ FetchUserPostsPage
    \/ FetchUserCommentsPage
    \/ SearchPage

SpecWalk == InitWalk /\ [][NextWalk]_vars

(***************************************************************************)
(* The walkers against an upstream that never runs dry: every fetch        *)
(* succeeds and returns the same page of fresh items with the same         *)
(* non-empty cursor.                                                       *)
(***************************************************************************)
SamePage == <<[id |-> 1, created |-> SinceT], [id |-> 2, created |-> SinceT]>>

SameCursor == <<1>>

\* service.go:56-77
EndlessFirstPage ==
    /\ walker = "subreddit" /\ wpc = "loop"
    /\ since = 0 /\ limit = 0
    /\ Served(SamePage, SameCursor)
    /\ posts' = posts \o SamePage
    /\ Return(posts', "nil", "firstPage")
    /\ UNCHANGED <<after, walker, since, limit>>
    /\ UNCHANGED <<evars, cvars, xvars>>

EndlessSubreddit ==
    /\ SubredditGuard
    /\ \E late \in BOOLEAN : SubredditServed(SamePage, SameCursor, late)
    /\ UNCHANGED <<walker, since, limit>>
    /\ UNCHANGED <<evars, cvars, xvars>>

EndlessUser(w) ==
    /\ UserGuard(w)
    /\ \E late \in BOOLEAN : UserServed(SamePage, SameCursor, late)
    /\ UNCHANGED <<walker, since, limit>>
    /\ UNCHANGED <<evars, cvars, xvars>>

EndlessUserPosts == EndlessUser("userPosts")

EndlessUserComments == EndlessUser("userComments")

EndlessSearch ==
    /\ SearchGuard
    /\ \E late \in BOOLEAN : SearchServed(SamePage, SameCursor, late)
    /\ UNCHANGED <<walker, since, limit>>
    /\ UNCHANGED <<evars, cvars, xvars>>

NextCeiling ==
    \/ EndlessFirstPage
    \/ EndlessSubreddit
    \/ EndlessUserPosts
    \/ EndlessUserComments
    \/ EndlessSearch

\* a walker is one goroutine that runs on until it returns
FairCeiling == InitWalk /\ [][NextCeiling]_vars /\ WF_vars(NextCeiling)

(***************************************************************************)
(* Comments, upstream Things and the decoder (internal/parser/parser.go).  *)
(***************************************************************************)
NumIds == 3          \* upstream comments are c1..cNumIds

\* ids are opaque strings; the model keeps the families apart by a tag
Cid(n) == <<"c", n>>                    \* a comment id, also a child id of a more node
PostID == <<"post", 0>>                 \* detail.Post.ID
Continue == <<"continue", 0>>           \* the child id "continue"
MoreID(path) == <<"more", path>>        \* "more_" + uuid.New()
ContinueID(path) == <<"continue_", path>>  \* "continue_" + uuid.New()
MoreKey(id) == <<"key", id>>            \* id + "-more"

\* created_utc of upstream comment n: c1 is the oldest, the others share an instant
CreatedOf(n) == IF n = 1 THEN 1 ELSE 2

RawT1(n, replies) ==
    [kind |-> "t1", id |-> Cid(n), created |-> CreatedOf(n), children |-> <<>>,
     parentID |-> PostID, replies |-> replies]

\* a comment whose created_utc is t
RawT1At(n, t, replies) == [RawT1(n, replies) EXCEPT !.created = t]

RawMore(children, parent) ==
    [kind |-> "more", id |-> PostID, created |-> 0, children |-> children,
     parentID |-> parent, replies |-> <<>>]

HasContinue(ids) == \E i \in 1..Len(ids) : ids[i] = Continue

\* parser.go:325-330: the child ids of the more nodes among a comment's replies
RECURSIVE MoreOfReplies(_, _)
MoreOfReplies(children, i) ==
    IF i > Len(children) THEN <<>>
    ELSE (IF children[i].kind = "more" /\ Len(children[i].children) > 0
          THEN children[i].children ELSE <<>>) \o MoreOfReplies(children, i + 1)

\* parser.go:295-374: path stands for the uuids drawn, one per position
RECURSIVE processComments(_, _, _)
processComments(children, i, path) ==
    IF i > Len(children) THEN <<>>
    ELSE LET child == children[i]
             rest == processComments(children, i + 1, path)
         IN IF child.kind = "t1"
            THEN LET more == MoreOfReplies(child.replies, 1)
                 IN <<[id |-> child.id, created |-> child.created, isMore |-> FALSE,
                       hasMore |-> Len(more) > 0, moreIDs |-> more,
                       replies |-> processComments(child.replies, 1, Append(path, i))]>> \o rest
            ELSE IF child.kind = "more" /\ Len(child.children) > 0
            THEN IF ~HasContinue(child.children)
                 THEN <<[id |-> MoreID(Append(path, i)), created |-> 0, isMore |-> TRUE,
                         hasMore |-> FALSE, moreIDs |-> child.children, replies |-> <<>>]>> \o rest
                 ELSE <<[id |-> ContinueID(Append(path, i)), created |-> 0, isMore |-> TRUE,
                         hasMore |-> TRUE, moreIDs |-> <<child.parentID>>, replies |-> <<>>]>> \o rest
            ELSE rest

(***************************************************************************)
(* The expansion engine (internal/scraper/service.go:560-1122).            *)
(***************************************************************************)
maxIterations == 60
stuckLimit == 3
batchSize == 15

Task(parent, ids, depth, pid) ==
    [Parent |-> parent, CommentIDs |-> ids, Depth |-> depth, PlaceholderID |-> pid]

\* service.go:851-904: acc is <<result, visited>> of the closure
RECURSIVE traverse(_, _, _, _, _)
traverse(comments, i, parentID, depth, acc) ==
    IF i > Len(comments) THEN acc
    ELSE LET c == comments[i]
             a1 == IF c.isMore /\ Len(c.moreIDs) > 0 /\ c.id \notin acc.vis
                   THEN [res |-> IF HasContinue(c.moreIDs) THEN acc.res
                                 ELSE Append(acc.res, Task(parentID, c.moreIDs, depth, c.id)),
                         vis |-> acc.vis \cup {c.id}]
                   ELSE acc
             a2 == IF c.hasMore /\ Len(c.moreIDs) > 0 /\ MoreKey(c.id) \notin a1.vis
                   THEN [res |-> Append(a1.res, Task(c.id, c.moreIDs, depth + 1, MoreKey(c.id))),
                         vis |-> a1.vis \cup {MoreKey(c.id)}]
                   ELSE a1
             a3 == IF Len(c.replies) > 0 THEN traverse(c.replies, 1, c.id, depth + 1, a2) ELSE a2
         IN traverse(comments, i + 1, parentID, depth, a3)

\* sort.Slice on a short slice is an insertion sort: x moves left past every
\* element that sorts after it.  Pairs <<key, value>>, larger key first.
RECURSIVE InsertDesc(_, _)
InsertDesc(sorted, x) ==
    IF sorted = <<>> THEN <<x>>
    ELSE IF x[1] > sorted[Len(sorted)][1]
         THEN Append(InsertDesc(SubSeq(sorted, 1, Len(sorted) - 1), x), sorted[Len(sorted)])
         ELSE Append(sorted, x)

RECURSIVE SortDesc(_, _)
SortDesc(pairs, i) ==
    IF i = 0 THEN <<>> ELSE InsertDesc(SortDesc(pairs, i - 1), pairs[i])

\* service.go:908-910
SortTasks(ts) ==
    LET sorted == SortDesc([i \in 1..Len(ts) |-> <<Len(ts[i].CommentIDs), ts[i]>>], Len(ts))
    IN [i \in 1..Len(ts) |-> sorted[i][2]]

\* service.go:835-913, on a context that is not cancelled
findMoreComments(comments) ==
    SortTasks(traverse(comments, 1, PostID, 0, [res |-> <<>>, vis |-> {}]).res)

\* service.go:853-855: the traversal stops where it sees the context cancelled,
\* after the first k tasks were collected
findMoreCommentsCancelled(comments, k) ==
    SortTasks(SubSeq(traverse(comments, 1, PostID, 0, [res |-> <<>>, vis |-> {}]).res, 1, k))

\* service.go:853-884: the context is looked at once per comment, so the two
\* tasks of one comment are collected together or not at all
CancelPoint(comments, k) ==
    LET found == traverse(comments, 1, PostID, 0, [res |-> <<>>, vis |-> {}]).res
    IN IF k = 0 \/ k >= Len(found) THEN TRUE
       ELSE found[k + 1].PlaceholderID # MoreKey(found[k].PlaceholderID)

\* service.go:957-967
RECURSIVE UniqueBatch(_, _, _)
UniqueBatch(new, i, seen) ==
    IF i > Len(new) THEN <<>>
    ELSE IF new[i].id \in seen THEN UniqueBatch(new, i + 1, seen)
    ELSE <<new[i]>> \o UniqueBatch(new, i + 1, seen \cup {new[i].id})

SortByCreatedNone(cs) == cs

\* service.go:969-972
SortByCreated(cs) ==
    LET sorted == SortDesc([i \in 1..Len(cs) |-> <<cs[i].created, cs[i]>>], Len(cs))
    IN [i \in 1..Len(cs) |-> sorted[i][2]]

addWithoutDuplicatesOne(existing, new) ==
    LET existingIDs == {existing[j].id : j \in 1..Len(existing)}
        fresh == SelectSeq(new, LAMBDA c : c.id \notin existingIDs)
    IN existing \o SubSeq(fresh, 1, Min(1, Len(fresh)))

\* service.go:1006-1023: existingIDs is built once, before the loop
addWithoutDuplicates(existing, new) ==
    LET existingIDs == {existing[j].id : j \in 1..Len(existing)}
    IN existing \o SelectSeq(new, LAMBDA c : c.id \notin existingIDs)

\* the position of the placeholder in the list, or 0 (service.go:1048-1049)
RECURSIVE PlaceholderIndex(_, _, _)
PlaceholderIndex(comments, pid, i) ==
    IF i > Len(comments) THEN 0
    ELSE IF comments[i].id = pid /\ comments[i].isMore THEN i
    ELSE PlaceholderIndex(comments, pid, i + 1)

\* service.go:1043-1059.  append((*comments)[:i], newComments...) writes into
\* the array of the list whenever its capacity allows: always when the new
\* comments fit below the old length, and beyond it when the array has spare
\* capacity (spare).  The tail (*comments)[i+1:] is read from that array
\* afterwards.
replacePlaceholder(comments, pid, new, spare) ==
    LET idx == PlaceholderIndex(comments, pid, 1)
        n == Len(comments)
        k == Len(new)
    IN IF n = 0 \/ k = 0 \/ idx = 0 THEN [ok |-> FALSE, list |-> comments]
       ELSE IF idx = n THEN [ok |-> TRUE, list |-> SubSeq(comments, 1, idx - 1) \o new]
       ELSE LET inPlace == (idx - 1 + k <= n) \/ spare
                tail == [j \in 1..(n - idx) |->
                            IF inPlace /\ idx + j <= idx - 1 + k
                            THEN new[j + 1] ELSE comments[idx + j]]
            IN [ok |-> TRUE, list |-> SubSeq(comments, 1, idx - 1) \o new \o tail]

\* service.go:1062-1081
RECURSIVE replaceInTree(_, _, _, _, _, _)
replaceInTree(comments, i, parentID, pid, new, spare) ==
    IF Len(comments) = 0 \/ Len(new) = 0 \/ i > Len(comments)
    THEN [ok |-> FALSE, list |-> comments]
    ELSE LET c == comments[i]
             here == IF c.id = parentID THEN replacePlaceholder(c.replies, pid, new, spare)
                     ELSE [ok |-> FALSE, list |-> c.replies]
         IN IF here.ok THEN [ok |-> TRUE, list |-> [comments EXCEPT ![i].replies = here.list]]
            ELSE LET below == IF Len(c.replies) > 0
                              THEN replaceInTree(c.replies, 1, parentID, pid, new, spare)
                              ELSE [ok |-> FALSE, list |-> c.replies]
                 IN IF below.ok
                    THEN [ok |-> TRUE, list |-> [comments EXCEPT ![i].replies = below.list]]
                    ELSE replaceInTree(comments, i + 1, parentID, pid, new, spare)

\* service.go:1026-1040
RECURSIVE appendToParent(_, _, _, _)
appendToParent(comments, i, parentID, new) ==
    IF i > Len(comments) THEN [ok |-> FALSE, list |-> comments]
    ELSE LET c == comments[i]
         IN IF c.id = parentID
            THEN [ok |-> TRUE,
                  list |-> [comments EXCEPT ![i].replies = addWithoutDuplicates(c.replies, new)]]
            ELSE LET below == IF Len(c.replies) > 0
                              THEN appendToParent(c.replies, 1, parentID, new)
                              ELSE [ok |-> FALSE, list |-> c.replies]
                 IN IF below.ok
                    THEN [ok |-> TRUE, list |-> [comments EXCEPT ![i].replies = below.list]]
                    ELSE appendToParent(comments, i + 1, parentID, new)

\* service.go:947-1003: detail.Comments after placeComments(detail, set, newComments)
placeComments(comments, set, newComments, spare) ==
    IF Len(newComments) = 0 THEN comments
    ELSE LET batch == SortByCreated(UniqueBatch(newComments, 1, {}))
         IN IF set.Depth = 0
            THEN LET top == replacePlaceholder(comments, set.PlaceholderID, batch, spare)
                 IN IF top.ok THEN top.list ELSE addWithoutDuplicates(comments, batch)
            ELSE LET inTree == replaceInTree(comments, 1, set.Parent, set.PlaceholderID, batch, spare)
                 IN IF inTree.ok THEN inTree.list
                    ELSE LET app == appendToParent(comments, 1, set.Parent, batch)
                         IN IF app.ok THEN app.list ELSE addWithoutDuplicates(comments, batch)

\* a filter that drops the placeholders of one list and leaves the replies alone
filterCommentsFlat(comments, i) ==
    SelectSeq(SubSeq(comments, i, Len(comments)), LAMBDA c : ~c.isMore)

\* service.go:1101-1122: the loop variable is a copy whose Replies are filtered
\* before the copy is appended, so the filter reaches every depth
RECURSIVE filterComments(_, _)
filterComments(comments, i) ==
    IF i > Len(comments) THEN <<>>
    ELSE IF ~comments[i].isMore
         THEN <<[comments[i] EXCEPT !.replies =
                    IF Len(comments[i].replies) > 0 THEN filterComments(comments[i].replies, 1)
                    ELSE comments[i].replies]>> \o filterComments(comments, i + 1)
         ELSE filterComments(comments, i + 1)

\* service.go:1084-1098
cleanupMoreComments(comments) ==
    IF Len(comments) = 0 THEN comments
    ELSE LET top == filterComments(comments, 1)
         IN [i \in 1..Len(top) |->
                IF Len(top[i].replies) > 0
                THEN [top[i] EXCEPT !.replies = filterComments(top[i].replies, 1)]
                ELSE top[i]]

(***************************************************************************)
(* The upstream of ScrapePost: the thread first fetched, and the answers   *)
(* of load-more.                                                           *)
(***************************************************************************)
MaxInitNodes == 3    \* Things in the thread as first fetched
MaxResp == 2         \* Things in one load-more answer
MaxReplies == 1      \* non-empty load-more answers of the finite upstream

SeqsUpTo(S, n) == UNION {[1..m -> S] : m \in 0..n}

ChildLists == {<<Cid(NumIds)>>, <<Cid(NumIds - 1), Cid(NumIds)>>, <<Continue>>}

RawLeaves == {RawT1(n, <<>>) : n \in 1..NumIds} \cup {RawMore(ch, PostID) : ch \in ChildLists}

RECURSIVE RawSize(_, _)
RawSize(things, i) ==
    IF i > Len(things) THEN 0
    ELSE 1 + RawSize(things[i].replies, 1) + RawSize(things, i + 1)

RECURSIVE RawIds(_, _)
RawIds(things, i) ==
    IF i > Len(things) THEN <<>>
    ELSE (IF things[i].kind = "t1" THEN <<things[i].id>> ELSE <<>>)
         \o RawIds(things[i].replies, 1) \o RawIds(things, i + 1)

\* the threads of at most n Things, and the single Things of at most n
RECURSIVE RawForests(_)
RawForests(n) ==
    IF n = 0 THEN {<<>>}
    ELSE LET trees == RawLeaves \cup
                      {RawT1(c, r) : c \in 1..NumIds, r \in RawForests(n - 1) \ {<<>>}}
         IN {<<>>} \cup
            UNION {{<<t>> \o f : f \in RawForests(n - RawSize(<<t>>, 1))} : t \in trees}

\* the threads the post fetch may return: real comment ids are unique, and
\* numbered in the order the decoder meets them
InitialThreads ==
    {t \in RawForests(MaxInitNodes) :
        LET ids == RawIds(t, 1) IN \A i \in 1..Len(ids) : ids[i] = Cid(i)}

\* the answers of load-more: flat lists of comments (of the ids the child
\* lists name) and more nodes
AnswerThings == {RawT1(n, <<>>) : n \in (NumIds - 1)..NumIds} \cup {RawMore(<<Cid(NumIds)>>, PostID)}

\* the upstream of the grafting runs: one or two Things at the root, at least
\* one of them a more node, and answers of plain comments of any instant
GraftThings ==
    {RawT1At(n, CreatedOf(m), <<>>) : n \in (NumIds - 1)..NumIds, m \in 1..NumIds}

subBatchSize == 100

\* a more node of one id more than a single load-more request takes
WideList == [i \in 1..(subBatchSize + 1) |-> Cid(i)]

GraftThreads ==
    LET roots == {RawT1(1, <<>>)} \cup {RawMore(ch, PostID) : ch \in ChildLists \ {<<Continue>>}}
    IN {t \in SeqsUpTo(roots, 2) :
          /\ \E i \in 1..Len(t) : t[i].kind = "more"
          /\ \A i, j \in 1..Len(t) : (i # j /\ t[i].kind = "t1") => t[j].kind # "t1"}
       \cup {<<RawMore(WideList, PostID)>>}

Answers(th) ==
    IF th = "finite" THEN SeqsUpTo(AnswerThings, MaxResp)
    ELSE IF th = "graft" THEN SeqsUpTo(GraftThings, MaxResp)
    ELSE IF th = "post" THEN {<<>>} \cup {<<RawT1(n, <<>>)>> : n \in (NumIds - 1)..NumIds}
    ELSE {<<>>, <<RawT1(1, <<>>)>>} \cup {<<RawMore(ch, PostID)>> : ch \in ChildLists \ {<<Continue>>}}

\* the answer of an upstream that has every comment asked for and no more
\* node to add: one plain comment for each comment id of the request
FullAnswer(ids) ==
    LET asked == SelectSeq(ids, LAMBDA id : id[1] = "c")
    IN [j \in 1..Len(asked) |-> RawT1(asked[j][2], <<>>)]

\* service.go:754-764: what is left to ask for after "continue" is dropped
ValidIDs(ids) == SelectSeq(ids, LAMBDA id : id # Continue)

SumIDs(sets) ==
    LET RECURSIVE Sum(_)
        Sum(i) == IF i = 0 THEN 0 ELSE Len(sets[i].CommentIDs) + Sum(i - 1)
    IN Sum(Len(sets))

(***************************************************************************)
(* ScrapePost after the post fetch: the rounds of expandCommentsFast.      *)
(***************************************************************************)
\* service.go:699-701 and 532-538: the sweep, and ScrapePost returns detail, nil
ExitLoopFaulty(reason) ==
    /\ forest' = cleanupMoreComments(forest)
    /\ epc' = "done"
    /\ exitReason' = reason
    /\ perr' = IF faults # {} THEN "expand comments" ELSE "nil"

ExitLoop(reason) ==
    /\ forest' = cleanupMoreComments(forest)
    /\ epc' = "done"
    /\ exitReason' = reason
    /\ perr' = "nil"

LoopGuardNone == TRUE

\* the loop may start another round (service.go:570)
LoopGuard == iteration < maxIterations

NoProgressAny(newRemainingIDs) == newRemainingIDs > 0

\* service.go:582: the round found as many ids as the round before
NoProgress(newRemainingIDs) == newRemainingIDs = remainingIDs /\ newRemainingIDs > 0

\* service.go:570-611: the head of a round, up to the cut to batchSize
ExpandFind ==
    /\ epc = "find"
    /\ IF ~LoopGuard
       THEN /\ ExitLoop("cap")
            /\ UNCHANGED <<remainingIDs, stuckCount, tasks, results, cancelled, rounds>>
       ELSE LET all == findMoreComments(forest)
            IN \E k \in 0..Len(all) :
                 /\ cancelled => k = 0
                 /\ CancelPoint(forest, k)
                 /\ cancelled' = (cancelled \/ k < Len(all))
                 /\ LET moreSets == IF k = Len(all) THEN all
                                    ELSE findMoreCommentsCancelled(forest, k)
                        newRemainingIDs == SumIDs(moreSets)
                    IN IF Len(moreSets) = 0
                       THEN /\ ExitLoop("noTasks")
                            /\ UNCHANGED <<remainingIDs, stuckCount, tasks, results, rounds>>
                       ELSE IF NoProgress(newRemainingIDs) /\ stuckCount + 1 >= stuckLimit
                       THEN /\ ExitLoop("stuck")
                            /\ stuckCount' = stuckCount + 1
                            /\ UNCHANGED <<remainingIDs, tasks, results, rounds>>
                       ELSE /\ stuckCount' = IF NoProgress(newRemainingIDs) THEN stuckCount + 1 ELSE 0
                            /\ remainingIDs' = newRemainingIDs
                            /\ tasks' = SubSeq(moreSets, 1, Min(batchSize, Len(moreSets)))
                            /\ results' = <<>>
                            /\ rounds' = rounds + 1
                            /\ epc' = "fetch"
                            /\ UNCHANGED <<forest, exitReason, perr>>
    /\ UNCHANGED <<iteration, thread, budget, initial, arrived, faults>>
    /\ UNCHANGED <<wvars, cvars, xvars>>

\* service.go:778-785: the ids of a task go out in requests of subBatchSize
Batches(ids) ==
    [k \in 1..((Len(ids) + subBatchSize - 1) \div subBatchSize) |->
        SubSeq(ids, (k - 1) * subBatchSize + 1, Min(k * subBatchSize, Len(ids)))]

Orders(n) == {f \in [1..n -> 1..n] : \A i, j \in 1..n : i # j => f[i] # f[j]}

RECURSIVE Concat(_, _, _)
Concat(parts, order, p) ==
    IF p > Len(order) THEN <<>> ELSE parts[order[p]] \o Concat(parts, order, p + 1)

\* how a load-more request may end: answered and decoded, failed in FetchMoreComments, or
\* answered with a payload ParseMoreComments rejects (told apart in the "post" runs only)
RequestEnds(th) == IF th = "post" THEN {"ok", "fetch", "parse"} ELSE {"ok"}

\* service.go:797-815: what the goroutine of one batch adds to allComments
BatchComments(end, things, path) == IF end # "ok" THEN <<>> ELSE processComments(things, 1, path)

\* service.go:749-833: the comments fetchMoreCommentsFast hands back for the
\* i-th task: one request per batch of ids other than "continue", nothing
\* decoded once the context is done, and the decoded answers appended under
\* the mutex in the order the requests complete.  InOrder is what the order
\* of the batches would have given; used counts the non-empty answers.
TaskAnswers(task, i, b, th, canc, it) ==
    LET nb == Len(Batches(ValidIDs(task.CommentIDs)))
        raws == IF th = "full"
                THEN {[k \in 1..nb |-> IF canc THEN <<>>
                                       ELSE FullAnswer(Batches(ValidIDs(task.CommentIDs))[k])]}
                ELSE {r \in [1..nb -> Answers(th)] :
                        /\ canc => \A k \in 1..nb : r[k] = <<>>
                        /\ th = "finite" => Cardinality({k \in 1..nb : r[k] # <<>>}) <= b}
        ends == {e \in [1..nb -> RequestEnds(th)] :
                    canc /\ th = "post" => \A k \in 1..nb : e[k] = "fetch"}
    IN UNION {
         LET parts == [k \in 1..nb |-> BatchComments(e[k], r[k], <<it + 1, i, k>>)]
         IN {[Comments |-> Concat(parts, f, 1),
              InOrder |-> Concat(parts, [k \in 1..nb |-> k], 1),
              used |-> Cardinality({k \in 1..nb : r[k] # <<>>}),
              faults |-> {e[k] : k \in 1..nb} \ {"ok"}] : f \in Orders(nb)}
         : r \in raws, e \in ends}

\* service.go:705-746: what the workers send back for the tasks from the i-th
\* on, with b non-empty answers left to the finite upstream, listed by task.
\* Only results with comments are kept (service.go:685).
RECURSIVE RoundResults(_, _, _, _, _, _)
RoundResults(ts, i, b, th, canc, it) ==
    IF i > Len(ts) THEN {[list |-> <<>>, left |-> b, faults |-> {}]}
    ELSE UNION {
           LET b2 == IF th = "finite" THEN b - a.used ELSE b
           IN {[list |-> (IF Len(a.Comments) > 0
                          THEN <<[Set |-> ts[i], Comments |-> a.Comments, Index |-> i,
                                  InOrder |-> a.InOrder]>>
                          ELSE <<>>) \o rest.list,
                left |-> rest.left,
                faults |-> a.faults \cup rest.faults] : rest \in RoundResults(ts, i + 1, b2, th, canc, it)}
           : a \in TaskAnswers(ts[i], i, b, th, canc, it)}

workerCount == 3

\* service.go:635-678: n tasks are taken in turn by workerCount workers, so the
\* task at index i does not finish before i - workerCount others have; the
\* results come in (list is by task) in any such order
ArrivalOrders(list, n) ==
    IF Len(list) < 2 THEN {list}
    ELSE {LET idxs == SelectSeq(f, LAMBDA i : \E k \in 1..Len(list) : list[k].Index = i)
          IN [p \in 1..Len(idxs) |->
                 list[CHOOSE k \in 1..Len(list) : list[k].Index = idxs[p]]]
          : f \in {g \in Orders(n) : \A p \in 1..n : g[p] <= p + workerCount - 1}}

SortByIndexNone(rs) == rs

\* service.go:680-682: sort.Slice by Index, smaller first
SortByIndex(rs) ==
    LET sorted == SortDesc([i \in 1..Len(rs) |-> <<0 - rs[i].Index, rs[i]>>], Len(rs))
    IN [i \in 1..Len(rs) |-> sorted[i][2]]

\* service.go:613-682: the round's tasks are handed to the workers and the
\* results gathered and put in task order; with no result the round is over
ExpandFetch ==
    /\ epc = "fetch"
    /\ \E r \in RoundResults(tasks, 1, budget, thread, cancelled, iteration) :
         /\ \E processedResults \in ArrivalOrders(r.list, Len(tasks)) :
              /\ arrived' = [p \in 1..Len(processedResults) |-> processedResults[p].Index]
              /\ results' = SortByIndex(processedResults)
         /\ budget' = r.left
         /\ faults' = faults \cup r.faults
         /\ IF Len(r.list) = 0
            THEN iteration' = iteration + 1 /\ epc' = "find"
            ELSE iteration' = iteration /\ epc' = "place"
    /\ UNCHANGED <<forest, remainingIDs, stuckCount, tasks, cancelled, exitReason,
                   rounds, thread, initial, perr>>
    /\ UNCHANGED <<wvars, cvars, xvars>>

\* service.go:684-697: the next result, in task order, is grafted; after the
\* last one the round is over
ExpandPlace ==
    /\ epc = "place"
    /\ Len(results) > 0
    /\ \E spare \in BOOLEAN :
         forest' = placeComments(forest, results[1].Set, results[1].Comments, spare)
    /\ results' = Tail(results)
    /\ IF Len(results) = 1
       THEN iteration' = iteration + 1 /\ epc' = "find"
       ELSE UNCHANGED <<iteration, epc>>
    /\ UNCHANGED <<remainingIDs, stuckCount, tasks, cancelled, exitReason, rounds,
                   thread, budget, initial, arrived, perr, faults>>
    /\ UNCHANGED <<wvars, cvars, xvars>>

\* the request context is cancelled or its deadline passes
ExpandCancel ==
    /\ epc \in {"find", "fetch", "place"}
    /\ ~cancelled
    /\ cancelled' = TRUE
    /\ UNCHANGED <<forest, epc, iteration, remainingIDs, stuckCount, tasks, results,
                   exitReason, rounds, thread, budget, initial, arrived, perr, faults>>
    /\ UNCHANGED <<wvars, cvars, xvars>>

WalkIdle ==
    /\ walker = "none" /\ since = 0 /\ limit = 0 /\ posts = <<>> /\ after = NoCursor
    /\ pageCount = 0 /\ pages = <<>> /\ sent = <<>> /\ got = <<>> /\ wpc = "idle"
    /\ ret = <<>> /\ werr = "nil" /\ stopReason = "none"

\* service.go:514-529: the state when expandCommentsFast is entered
InitExpand ==
    /\ WalkIdle
    /\ ClientIdle
    /\ OthersIdle
    /\ thread \in {"finite", "endless"}
    /\ forest \in IF thread = "finite"
                  THEN {processComments(t, 1, <<0>>) : t \in InitialThreads}
                  ELSE {processComments(<<RawMore(<<Cid(NumIds)>>, PostID)>>, 1, <<0>>)}
    /\ budget = IF thread = "finite" THEN MaxReplies ELSE 0
    /\ initial = forest /\ arrived = <<>> /\ perr = "nil" /\ faults = {}
    /\ epc = "find" /\ iteration = 0 /\ remainingIDs = 0 /\ stuckCount = 0
    /\ tasks = <<>> /\ results = <<>> /\ cancelled = FALSE
    /\ exitReason = "none" /\ rounds = 0

NextExpand == ExpandFind \/ ExpandFetch \/ ExpandPlace \/ ExpandCancel

SpecExpand == InitExpand /\ [][NextExpand]_vars

\* the runs that graft: every task may be answered, by plain comments
InitGraft ==
    /\ WalkIdle
    /\ ClientIdle
    /\ OthersIdle
    /\ thread = "graft"
    /\ forest \in {processComments(t, 1, <<0>>) : t \in GraftThreads}
    /\ budget = 0
    /\ initial = forest /\ arrived = <<>> /\ perr = "nil" /\ faults = {}
    /\ epc = "find" /\ iteration = 0 /\ remainingIDs = 0 /\ stuckCount = 0
    /\ tasks = <<>> /\ results = <<>> /\ cancelled = FALSE
    /\ exitReason = "none" /\ rounds = 0

SpecGraft == InitGraft /\ [][NextExpand]_vars

\* the runs on an upstream that answers every load-more request in full
InitFull ==
    /\ WalkIdle
    /\ ClientIdle
    /\ OthersIdle
    /\ thread = "full"
    /\ forest \in {processComments(t, 1, <<0>>) : t \in InitialThreads}
    /\ budget = 0
    /\ initial = forest /\ arrived = <<>> /\ perr = "nil" /\ faults = {}
    /\ epc = "find" /\ iteration = 0 /\ remainingIDs = 0 /\ stuckCount = 0
    /\ tasks = <<>> /\ results = <<>> /\ cancelled = FALSE
    /\ exitReason = "none" /\ rounds = 0

SpecFull == InitFull /\ [][NextExpand]_vars

\* the threads of the runs that start at the post fetch
PostThreads == {<<>>} \cup {t \in GraftThreads : Len(t) <= 2 /\ \A i \in 1..Len(t) : Len(t[i].children) <= 2}

\* service.go:542-555: why fetchInitialPost may fail
InitialPostErrors == {"fetch post JSON", "invalid post JSON format", "parse post"}

\* service.go:514-529: ScrapePost up to the call of expandCommentsFast
FetchInitialPost ==
    /\ epc = "initial"
    /\ \/ /\ perr' \in InitialPostErrors
          /\ epc' = "done"
          /\ UNCHANGED <<forest, initial>>
       \/ /\ forest' \in {processComments(t, 1, <<0>>) : t \in PostThreads}
          /\ initial' = forest'
          /\ epc' = "find"
          /\ perr' = perr
    /\ UNCHANGED <<iteration, remainingIDs, stuckCount, tasks, results, cancelled, exitReason,
                   rounds, thread, budget, arrived, faults>>
    /\ UNCHANGED <<wvars, cvars, xvars>>

\* ScrapePost is called
InitPost ==
    /\ WalkIdle
    /\ ClientIdle
    /\ OthersIdle
    /\ thread = "post"
    /\ forest = <<>> /\ budget = 0 /\ initial = <<>> /\ arrived = <<>>
    /\ perr = "nil" /\ faults = {}
    /\ epc = "initial" /\ iteration = 0 /\ remainingIDs = 0 /\ stuckCount = 0
    /\ tasks = <<>> /\ results = <<>> /\ cancelled = FALSE
    /\ exitReason = "none" /\ rounds = 0

NextPost == FetchInitialPost \/ ExpandFind \/ ExpandFetch \/ ExpandPlace \/ ExpandCancel

SpecPost == InitPost /\ [][NextPost]_vars

\* the thread that never runs dry; expandCommentsFast is sequential code and
\* every load-more call returns
InitEndless == InitExpand /\ thread = "endless"

FairEndless ==
    /\ InitEndless /\ [][NextExpand]_vars
    /\ WF_vars(ExpandFind) /\ WF_vars(ExpandFetch) /\ WF_vars(ExpandPlace)

(***************************************************************************)
(* The proxy rotator (pkg/utils/proxy_client.go, listed in README.md).     *)
(***************************************************************************)
MaxProxies == 3
MaxBlocks == 3

ProxyNames == {"proxyA", "proxyB"}

\* the pools NewProxyRotator accepts; the same URL may be configured twice
ProxyPools == UNION {[1..n -> ProxyNames] : n \in 1..MaxProxies}

\* README.md:339-349: the position of the chosen entry of parsedURLs, 0 for nil
GetProxyForIDShifted(urls, id) == IF Len(urls) = 0 THEN 0 ELSE ((id + 1) % Len(urls)) + 1
GetProxyForID(urls, id) == IF Len(urls) = 0 THEN 0 ELSE (id % Len(urls)) + 1

\* the "for-id" call with the next id of the series 0, 1, 2, ...
CallForID ==
    /\ caller = "rotator"
    /\ Len(calls) < Len(parsedURLs) * MaxBlocks
    /\ LET id == Len(calls)
       IN calls' = Append(calls, [id |-> id, got |-> GetProxyForID(parsedURLs, id)])
    /\ UNCHANGED <<parsedURLs, currentIdx, nexts>>
    /\ UNCHANGED <<wvars, evars, dvars, xvars>>

\* README.md:335-336: the position NextProxy returns for the value atomic.AddUint32 gave it
NextProxyOf(urls, added) == IF Len(urls) = 0 THEN 0 ELSE (added % Len(urls)) + 1

\* README.md:327-337: NextProxy; atomic.AddUint32 adds and returns the new value in one
\* indivisible step (the counter stays far below the width of uint32 here)
CallNext ==
    /\ caller = "rotator"
    /\ currentIdx < Len(parsedURLs) * MaxBlocks
    /\ currentIdx' = currentIdx + 1
    /\ nexts' = Append(nexts, NextProxyOf(parsedURLs, currentIdx + 1))
    /\ UNCHANGED <<parsedURLs, calls>>
    /\ UNCHANGED <<wvars, evars, dvars, xvars>>

(***************************************************************************)
(* RetryableClient.Do and the transport under it.                          *)
(***************************************************************************)
MaxTries == 3

Magic1 == 31
Magic2 == 139
StatusTooManyRequests == 429

UserAgentPool == {"pooled1", "pooled2"}
Statuses == {200, 404, StatusTooManyRequests, 503}
RespBodies == {<<>>, <<Magic1>>, <<65>>, <<Magic1, Magic2, 65>>, <<Magic1, Magic2, Magic1, Magic2, 65>>}
ReqBodies == {<<>>, <<65, 66>>}
\* README.md:499: uint32(time.Now().UnixNano()), some number
ClockIDs == 0..1

\* what upstream may answer to one attempt
Responses == [status : Statuses, enc : {"", "gzip"}, body : RespBodies, readErr : BOOLEAN]

\* a gzip stream is its two magic bytes followed by the payload
IsGzip(b) == Len(b) >= 2 /\ b[1] = Magic1 /\ b[2] = Magic2
Gunzip(b) == SubSeq(b, 3, Len(b))

\* README.md:639-690: what one attempt makes of a response
handleResponse(resp) ==
    LET gz == resp.enc = "gzip" IN
    IF gz /\ ~IsGzip(resp.body)
    THEN [class |-> "gzipErr", status |-> resp.status, body |-> <<>>]
    ELSE IF resp.readErr
    THEN [class |-> "readErr", status |-> resp.status, body |-> <<>>]
    ELSE LET read == IF gz THEN Gunzip(resp.body) ELSE resp.body IN
         IF Len(read) = 1 /\ read[1] = Magic1
         THEN [class |-> "panic", status |-> resp.status, body |-> <<>>]
         ELSE LET bodyBytes == IF IsGzip(read) THEN Gunzip(read) ELSE read IN
              IF resp.status = StatusTooManyRequests \/ resp.status >= 500
              THEN [class |-> "status", status |-> resp.status, body |-> bodyBytes]
              ELSE [class |-> "ok", status |-> resp.status, body |-> bodyBytes]

\* README.md:618-620: the body the attempt is going to send
ReplayBodyNone(has, bytes, left) == left
ReplayBody(has, bytes, left) == IF has THEN bytes ELSE left

\* README.md:237-242: the User-Agent addRandomizedBrowserHeaders leaves on the request
SentUserAgent(random, existing, pick) == IF ~random /\ existing # "" THEN existing ELSE pick

\* README.md:494-519: the request RoundTrip hands to the wire
RoundTrip(id, pick) ==
    [sent |-> TRUE, ua |-> SentUserAgent(randomUA, reqUA, pick), body |-> stream,
     proxy |-> GetProxyForID(parsedURLs, id)]

Err(msg, count, cause, status) ==
    [kind |-> "err", msg |-> msg, count |-> count, cause |-> cause, status |-> status, body |-> <<>>]

\* README.md:599-620: Do up to the first attempt
DoCall ==
    /\ dpc = "call"
    /\ reqUA' = IF reqUA = "" /\ ~randomUA THEN userAgent ELSE reqUA
    /\ \/ /\ hasBody
          /\ dret' = Err("reading request body", <<>>, "read", 0)
          /\ dpc' = "done"
          /\ UNCHANGED <<reqBody, stream>>
       \/ /\ IF maxRetries <= 0
             THEN dret' = [NoReturn EXCEPT !.kind = "panic"] /\ dpc' = "done"
             ELSE dret' = dret /\ dpc' = "send"
          /\ reqBody' = stream
          /\ stream' = ReplayBody(hasBody, stream, <<>>)
    /\ UNCHANGED <<caller, maxRetries, userAgent, randomUA, hasBody, attempt, tries, last,
                   waited, wire, ctxDone, retry, fpc, fret>>
    /\ UNCHANGED <<wvars, evars, pvars, xvars>>

\* how c.client.Do may end: a cancelled context fails every call at once
Outcomes ==
    IF ctxDone
    THEN {[class |-> "transport", status |-> 0, cause |-> "canceled", body |-> <<>>]}
    ELSE {[class |-> "transport", status |-> 0, cause |-> "reset", body |-> <<>>]}
         \cup {handleResponse(r) @@ [cause |-> "none"] : r \in Responses}

\* README.md:629-690: one attempt, from c.client.Do to the continue, break or return after it
DoAttempt ==
    /\ dpc = "send"
    /\ \E o \in Outcomes, id \in ClockIDs, pick \in UserAgentPool :
        LET lastAttempt == attempt = maxRetries - 1
            retryable == o.class \in {"transport", "gzipErr", "readErr", "status"}
            goOn == retryable /\ ~lastAttempt
        IN /\ tries' = tries + 1
           /\ last' = [class |-> o.class, status |-> o.status, cause |-> o.cause]
           /\ wire' = IF ctxDone THEN wire ELSE RoundTrip(id, pick)
           /\ stream' = IF goOn THEN ReplayBody(hasBody, reqBody, <<>>) ELSE <<>>
           /\ attempt' = IF goOn THEN attempt + 1 ELSE attempt
           /\ dpc' = IF goOn THEN "sleep" ELSE "done"
           /\ dret' = IF goOn THEN dret
                      ELSE IF o.class = "transport"
                      THEN Err("all attempts failed", <<maxRetries>>, o.cause, 0)
                      ELSE IF o.class = "gzipErr"
                      THEN Err("failed to decompress gzip response", <<>>, "gzip", 0)
                      ELSE IF o.class = "readErr"
                      THEN Err("reading response body", <<>>, "read", 0)
                      ELSE IF o.class = "status"
                      THEN Err("server error", <<>>, "none", o.status)
                      ELSE IF o.class = "panic"
                      THEN [NoReturn EXCEPT !.kind = "panic"]
                      ELSE [NoReturn EXCEPT !.kind = "ok", !.status = o.status, !.body = o.body]
    /\ UNCHANGED <<caller, maxRetries, userAgent, randomUA, reqUA, hasBody, reqBody, waited,
                   ctxDone, retry, fpc, fret>>
    /\ UNCHANGED <<wvars, evars, pvars, xvars>>

\* README.md:622-627: time.Sleep(backoffTime) returns
DoWake ==
    /\ dpc = "sleep"
    /\ waited' = 2^attempt
    /\ dpc' = "send"
    /\ UNCHANGED <<caller, maxRetries, userAgent, randomUA, reqUA, hasBody, reqBody, stream,
                   attempt, tries, last, wire, dret, ctxDone, retry, fpc, fret>>
    /\ UNCHANGED <<wvars, evars, pvars, xvars>>

(***************************************************************************)
(* FetchMoreComments (internal/client/reddit_client.go), the caller that   *)
(* retries around Do.                                                      *)
(***************************************************************************)
fetchMoreMaxRetries == 3

\* reddit_client.go:204: strings.Contains(err.Error(), "429")
Contains429(e) == e.status = StatusTooManyRequests

\* reddit_client.go:179, 210: the next turn of the loop, or the return after it
FmcAdvance ==
    IF retry + 1 < fetchMoreMaxRetries
    THEN retry' = retry + 1 /\ fpc' = "sleep" /\ fret' = fret
    ELSE retry' = retry + 1 /\ fpc' = "done"
         /\ fret' = Err("max retries exceeded", <<>>, dret.msg, dret.status)

\* reddit_client.go:196-207: Do has returned
FmcResult ==
    /\ caller = "more" /\ fpc = "inDo" /\ dpc = "done" /\ dret.kind \in {"ok", "err"}
    /\ IF dret.kind = "ok"
       THEN fret' = dret /\ fpc' = "done" /\ retry' = retry
       ELSE IF Contains429(dret)
       THEN fpc' = "sleep429" /\ retry' = retry /\ fret' = fret
       ELSE FmcAdvance
    /\ UNCHANGED <<caller, maxRetries, userAgent, randomUA, reqUA, hasBody, reqBody, stream,
                   attempt, dpc, tries, last, waited, wire, dret, ctxDone>>
    /\ UNCHANGED <<wvars, evars, pvars, xvars>>

\* reddit_client.go:206: time.Sleep(30 * time.Second) returns
FmcWake429 ==
    /\ fpc = "sleep429"
    /\ FmcAdvance
    /\ UNCHANGED <<caller, maxRetries, userAgent, randomUA, reqUA, hasBody, reqBody, stream,
                   attempt, dpc, tries, last, waited, wire, dret, ctxDone>>
    /\ UNCHANGED <<wvars, evars, pvars, xvars>>

\* reddit_client.go:185-196: time.Sleep(waitTime) returns, the request is built and Do is called
FmcWake ==
    /\ fpc = "sleep"
    /\ fpc' = "inDo"
    /\ reqUA' = userAgent
    /\ dpc' = "call" /\ attempt' = 0 /\ tries' = 0 /\ last' = NoOutcome /\ waited' = 0
    /\ dret' = NoReturn /\ reqBody' = <<>> /\ stream' = <<>>
    /\ UNCHANGED <<caller, maxRetries, userAgent, randomUA, hasBody, wire, ctxDone, retry, fret>>
    /\ UNCHANGED <<wvars, evars, pvars, xvars>>

\* the operation the caller started has returned (or the process has died)
Finished ==
    IF caller = "more" THEN fpc = "done" \/ dret.kind = "panic" ELSE dpc = "done"

\* the request context is cancelled or its deadline passes
CtxCancel ==
    /\ caller \in {"json", "more", "direct"}
    /\ ~ctxDone /\ ~Finished
    /\ ctxDone' = TRUE
    /\ UNCHANGED <<caller, maxRetries, userAgent, randomUA, reqUA, hasBody, reqBody, stream,
                   attempt, dpc, tries, last, waited, wire, dret, retry, fpc, fret>>
    /\ UNCHANGED <<wvars, evars, pvars, xvars>>

ClientPools == {p \in ProxyPools : Len(p) <= 2 /\ \A i, j \in 1..Len(p) : i # j => p[i] # p[j]}

\* a request on its way into Do: from FetchJSON, from FetchMoreComments, or from any other user
\* of the exported client
InitClient ==
    /\ WalkIdle /\ ExpandIdle /\ OthersIdle
    /\ caller \in {"json", "more", "direct"}
    /\ maxRetries \in (-1)..MaxTries
    /\ randomUA \in BOOLEAN
    /\ userAgent \in IF caller = "direct" THEN {"", "configured"} ELSE {"configured"}
    /\ reqUA \in IF caller = "json" THEN {""}
                  ELSE IF caller = "more" THEN {userAgent} ELSE {"", "custom"}
    /\ hasBody \in IF caller = "direct" THEN BOOLEAN ELSE {FALSE}
    /\ stream \in IF hasBody THEN ReqBodies ELSE {<<>>}
    /\ reqBody = <<>> /\ attempt = 0 /\ dpc = "call" /\ tries = 0 /\ last = NoOutcome
    /\ waited = 0 /\ wire = NoWire /\ dret = NoReturn /\ ctxDone = FALSE
    /\ retry = 0 /\ fpc = (IF caller = "more" THEN "inDo" ELSE "idle") /\ fret = NoReturn
    /\ parsedURLs \in ClientPools /\ currentIdx = 0 /\ calls = <<>> /\ nexts = <<>>

NextClient == DoCall \/ DoAttempt \/ DoWake \/ FmcResult \/ FmcWake429 \/ FmcWake \/ CtxCancel

SpecClient == InitClient /\ [][NextClient]_vars

\* a rotator right after NewProxyRotator, asked for proxies
InitProxy ==
    /\ WalkIdle /\ ExpandIdle /\ DoIdle /\ OthersIdle
    /\ caller = "rotator"
    /\ parsedURLs \in ProxyPools /\ currentIdx = 0 /\ calls = <<>> /\ nexts = <<>>

NextProxy == CallForID \/ CallNext

SpecProxy == InitProxy /\ [][NextProxy]_vars

(***************************************************************************)
(* The HTTP handlers (internal/handler/http) and ScrapeUserActivity.       *)
(***************************************************************************)
DigitChars == <<"0", "1", "2", "3", "4", "5", "6", "7", "8", "9">>

IsDigit(c) == \E d \in 1..Len(DigitChars) : DigitChars[d] = c
DigitVal(c) == (CHOOSE d \in 1..Len(DigitChars) : DigitChars[d] = c) - 1

\* the decimal text of a one-digit number
Itoa(n) == <<DigitChars[n + 1]>>

\* strconv.Atoi / strconv.ParseInt(s, 10, 64): an optional sign and at least one digit
Atoi(s) ==
    LET signed == Len(s) > 0 /\ s[1] \in {"+", "-"}
        digits == IF signed THEN Tail(s) ELSE s
        RECURSIVE Val(_)
        Val(k) == IF k = 0 THEN 0 ELSE 10 * Val(k - 1) + DigitVal(digits[k])
    IN IF Len(digits) = 0 \/ \E k \in 1..Len(digits) : ~IsDigit(digits[k])
       THEN [ok |-> FALSE, v |-> 0]
       ELSE [ok |-> TRUE, v |-> IF signed /\ s[1] = "-" THEN 0 - Val(Len(digits)) ELSE Val(Len(digits))]

Rejected(param) == [status |-> 400, msg |-> param, args |-> NoArgs]
Accepted(s, l, cl) == [status |-> 0, msg |-> "", args |-> [since |-> s, limit |-> l, commentLimit |-> cl]]

\* subreddit_handler.go:35-57
GetSubredditPosts(q) ==
    IF q.name = <<>> THEN Rejected("subreddit")
    ELSE IF q.since # <<>> /\ ~Atoi(q.since).ok THEN Rejected("since_timestamp")
    ELSE IF q.limit # <<>> /\ ~Atoi(q.limit).ok THEN Rejected("limit")
    ELSE Accepted(Atoi(q.since).v, Atoi(q.limit).v, 0)

\* user_handler.go:35-72
GetUserInfo(q) ==
    IF q.name = <<>> THEN Rejected("username")
    ELSE IF q.since # <<>> /\ ~Atoi(q.since).ok THEN Rejected("since_timestamp")
    ELSE IF q.limit # <<>> /\ ~Atoi(q.limit).ok THEN Rejected("post_limit")
    ELSE IF q.commentLimit # <<>> /\ ~Atoi(q.commentLimit).ok THEN Rejected("comment_limit")
    ELSE LET postLimit == Atoi(q.limit).v
             commentLimit == IF q.commentLimit # <<>> THEN Atoi(q.commentLimit).v ELSE postLimit
         IN IF postLimit < -1 \/ commentLimit < -1 THEN Rejected("limits")
            ELSE Accepted(Atoi(q.since).v, postLimit, commentLimit)

\* search_handler.go:41-65
Search(q) ==
    IF q.limit # <<>> /\ ~Atoi(q.limit).ok THEN Rejected("limit")
    ELSE IF q.since # <<>> /\ ~Atoi(q.since).ok THEN Rejected("since_timestamp")
    ELSE LET lim == IF q.limit # <<>> THEN Atoi(q.limit).v ELSE 25
         IN IF lim < -1 THEN Rejected("limit") ELSE Accepted(Atoi(q.since).v, lim, 0)

Validate(e, q) ==
    IF e = "subreddit" THEN GetSubredditPosts(q)
    ELSE IF e = "user" THEN GetUserInfo(q) ELSE Search(q)

\* the walker state at the entry of a walker
WalkerStarts(w, s, l) ==
    /\ walker' = w /\ since' = s /\ limit' = l /\ wpc' = "loop"
    /\ UNCHANGED <<posts, after, pageCount, pages, sent, got, ret, werr, stopReason>>

\* the handler up to its call of the service: a 400 answer, or the call
HandleRequest ==
    /\ hpc = "recv"
    /\ LET v == Validate(endpoint, query)
       IN /\ args' = v.args
          /\ hmsg' = v.msg
          /\ hstatus' = v.status
          /\ IF v.status = 400
             THEN hpc' = "done" /\ UNCHANGED wvars
             ELSE IF endpoint = "user"
             THEN hpc' = "about" /\ UNCHANGED wvars
             ELSE /\ hpc' = "svc"
                  /\ WalkerStarts(endpoint, v.args.since, v.args.limit)
    /\ UNCHANGED <<endpoint, query, profiled, sibling, siblingLate, serr>>
    /\ UNCHANGED <<evars, cvars, yvars>>

\* service.go:192-233: the profile request of ScrapeUserActivity, then the two walkers start
UserAbout ==
    /\ hpc = "about"
    /\ profiled' = TRUE
    /\ \/ /\ \E e \in {"fetch user info", "parse user info"} : serr' = e
          /\ hpc' = "done" /\ hstatus' = 502
          /\ UNCHANGED <<wvars, sibling>>
       \/ /\ \E w \in {"userPosts", "userComments"} :
               WalkerStarts(w, args.since, IF w = "userPosts" THEN args.limit ELSE args.commentLimit)
          /\ sibling' = "run"
          /\ hpc' = "svc"
          /\ UNCHANGED <<serr, hstatus>>
    /\ UNCHANGED <<endpoint, query, hmsg, args, siblingLate>>
    /\ UNCHANGED <<evars, cvars, yvars>>

\* service.go:213-233: the goroutine of the other walker ends
SiblingEnds ==
    /\ hpc = "svc" /\ sibling = "run"
    /\ sibling' \in {"ok", "err"}
    /\ siblingLate' = (wpc = "done")
    /\ UNCHANGED <<endpoint, query, hpc, hstatus, hmsg, args, profiled, serr>>
    /\ UNCHANGED <<wvars, evars, cvars, yvars>>

\* service.go:235-255: the error ScrapeUserActivity returns once both goroutines are done
UserActivityErr(postsFailed, commentsFailed) ==
    IF postsFailed THEN "fetch user posts" ELSE IF commentsFailed THEN "fetch user comments" ELSE "nil"

\* the handler's answer for what a service returned
StatusNone(e) == 200
Status(e) == IF e # "nil" THEN 502 ELSE 200

\* user_handler.go:82-91 after service.go:235-255
RespondUser ==
    /\ endpoint = "user" /\ hpc = "svc" /\ wpc = "done" /\ sibling # "run"
    /\ LET own == werr # "nil"
           other == sibling = "err"
           e == IF walker = "userPosts" THEN UserActivityErr(own, other)
                ELSE UserActivityErr(other, own)
       IN serr' = e /\ hstatus' = Status(e)
    /\ hpc' = "done"
    /\ UNCHANGED <<endpoint, query, hmsg, args, profiled, sibling, siblingLate>>
    /\ UNCHANGED <<wvars, evars, cvars, yvars>>

\* subreddit_handler.go:64-80, search_handler.go:79-102
RespondListing ==
    /\ endpoint \in {"subreddit", "search"} /\ hpc = "svc" /\ wpc = "done"
    /\ serr' = werr /\ hstatus' = Status(werr)
    /\ hpc' = "done"
    /\ UNCHANGED <<endpoint, query, hmsg, args, profiled, sibling, siblingLate>>
    /\ UNCHANGED <<wvars, evars, cvars, yvars>>

RawLimits == {<<>>, <<"x">>, <<"-", "2">>, <<"-", "1">>, <<"0">>, <<"1">>, <<"3">>}
RawCommentLimits == {<<>>, <<"-", "2">>, <<"1">>}
RawSinces == {<<>>, <<"x">>, Itoa(SinceT)}
RawNames == {<<>>, <<"n">>}

\* search_handler.go:116-118: the `after` parameter of /search, absent or a
\* cursor of the caller's (one that upstream does not hand out in the model)
RawAfters == {NoCursor, <<0>>}

\* a request arrives at one of the endpoints
InitHandler ==
    /\ WalkIdle /\ ExpandIdle /\ ClientIdle /\ BesidesIdle
    /\ endpoint \in {"subreddit", "user", "search"}
    /\ query \in [name : RawNames, since : RawSinces, limit : RawLimits,
                  commentLimit : IF endpoint = "user" THEN RawCommentLimits ELSE {<<>>},
                  after : IF endpoint = "search" THEN RawAfters ELSE {NoCursor}]
    /\ hpc = "recv" /\ hstatus = 0 /\ hmsg = "" /\ args = NoArgs /\ profiled = FALSE
    /\ sibling = "none" /\ siblingLate = FALSE /\ serr = "nil"

NextHandler ==
    \/ HandleRequest \/ UserAbout \/ SiblingEnds \/ RespondUser \/ RespondListing
    \/ SubredditFirstPage \/ SubredditPage \/ FetchUserPostsPage \/ FetchUserCommentsPage
    \/ SearchPage

SpecHandler == InitHandler /\ [][NextHandler]_vars

(***************************************************************************)
(* Concurrent requests through one TLSFingerprintingTransport.             *)
(***************************************************************************)
MaxRequests == 2

\* README.md:156-171: the browser families, one ClientHello each
Browsers == {"Chrome", "Firefox", "Safari", "Edge"}

NoRequest == [scheme |-> "", proxy |-> 0, browser |-> "none", dialed |-> NoDialer]

\* README.md:499-506: the proxy is picked for the request and stored in the transport
TPick(q) ==
    /\ tpc[q] = "start"
    /\ \E id \in ClockIDs :
         LET proxyURL == GetProxyForID(parsedURLs, id)
         IN /\ treq' = [treq EXCEPT ![q].proxy = proxyURL]
            /\ IF proxyURL # 0
               THEN tProxy' = proxyURL /\ writes' = writes \cup {"Proxy"}
               ELSE UNCHANGED <<tProxy, writes>>
    /\ tpc' = [tpc EXCEPT ![q] = "dialer"]
    /\ UNCHANGED tDial
    /\ UNCHANGED tOthers

\* README.md:508-514: for https a dialer with a ClientHello drawn at random is stored in the
\* transport and its browser family shapes the headers; otherwise the family is drawn
TDialer(q) ==
    /\ tpc[q] = "dialer"
    /\ \E b \in Browsers :
         /\ treq' = [treq EXCEPT ![q].browser = b]
         /\ IF treq[q].scheme = "https"
            THEN /\ tDial' = [proxy |-> treq[q].proxy, hello |-> b]
                 /\ writes' = writes \cup {"DialTLSContext"}
            ELSE UNCHANGED <<tDial, writes>>
    /\ tpc' = [tpc EXCEPT ![q] = "send"]
    /\ UNCHANGED tProxy
    /\ UNCHANGED tOthers

\* README.md:518: t.transport.RoundTrip(reqCopy) dials with what the transport holds now
TSend(q) ==
    /\ tpc[q] = "send"
    /\ treq' = [treq EXCEPT ![q].dialed = IF treq[q].scheme = "https" THEN tDial
                                          ELSE [proxy |-> tProxy, hello |-> "none"]]
    /\ tpc' = [tpc EXCEPT ![q] = "done"]
    /\ UNCHANGED <<tProxy, tDial, writes>>
    /\ UNCHANGED tOthers

\* requests enter RoundTrip of one transport over one rotator
InitTransport ==
    /\ WalkIdle /\ ExpandIdle /\ DoIdle /\ HandlerIdle /\ PoolIdle /\ ReplaceIdle /\ ActivityIdle
    /\ caller = "transport"
    /\ parsedURLs \in ProxyPools /\ currentIdx = 0 /\ calls = <<>> /\ nexts = <<>>
    /\ \E n \in 1..MaxRequests :
         /\ tpc = [q \in 1..n |-> "start"]
         /\ treq \in [1..n -> {[NoRequest EXCEPT !.scheme = s] : s \in {"https", "http"}}]
    /\ tProxy = 0 /\ tDial = NoDialer /\ writes = {}

NextTransport ==
    \/ \E q \in 1..Len(tpc) : TPick(q)
    \/ \E q \in 1..Len(tpc) : TDialer(q)
    \/ \E q \in 1..Len(tpc) : TSend(q)

SpecTransport == InitTransport /\ [][NextTransport]_vars

(***************************************************************************)
(* One round of expandCommentsFast, goroutine by goroutine                 *)
(* (service.go:613-689, 705-746, 749-833).                                 *)
(***************************************************************************)
MaxRoots == 2        \* Things at the root of the thread the round starts from
maxConcurrent == 2

\* a more node of one id more than two load-more requests take
WiderList == [i \in 1..(2 * subBatchSize + 1) |-> Cid(i)]

\* the roots of the threads of a round: more nodes whose ids fill one, two and three
\* requests, and a comment whose replies go on in a "continue" link
PoolRoots ==
    <<RawT1(1, <<RawMore(<<Continue>>, Cid(1))>>), RawMore(<<Cid(NumIds)>>, PostID),
      RawMore(WideList, PostID), RawMore(WiderList, PostID)>>

PoolThreads ==
    {[i \in 1..Len(f) |-> PoolRoots[f[i]]] :
        f \in {g \in SeqsUpTo(1..Len(PoolRoots), MaxRoots) :
                 /\ Len(g) > 0
                 /\ \A i \in 1..(Len(g) - 1) : g[i] <= g[i + 1]
                 /\ \A i \in 1..(Len(g) - 1) : g[i] = 1 => g[i + 1] # 1}}

IdleWorker == [pc |-> "recv", work |-> 0, sem |-> 0, flight |-> 0, all |-> <<>>]

\* service.go:778-785: the requests the ids of the task at Index i are cut into
NumBatches(i) == Len(Batches(ValidIDs(tasks[i].CommentIDs)))

\* service.go:634-641: the workers are started, each counted in the WaitGroup
StartWorkers ==
    /\ ppc = "start"
    /\ wk' = [w \in 1..workerCount |-> IdleWorker]
    /\ wg' = workerCount
    /\ ppc' = "dispatch"
    /\ pidx' = 1
    /\ taken' = [i \in 1..Len(tasks) |-> 0]
    /\ UNCHANGED <<commentSets, setsClosed, resultsCh, resultsClosed, closer>>
    /\ UNCHANGED <<forest, tasks, results, arrived>>
    /\ UNCHANGED kOthers

\* service.go:643-655: the next task goes into the task channel unless it has no ids;
\* a send waits while the channel holds len(moreSets) tasks
Dispatch ==
    /\ ppc = "dispatch"
    /\ pidx <= Len(tasks)
    /\ IF Len(tasks[pidx].CommentIDs) = 0
       THEN UNCHANGED commentSets
       ELSE /\ Len(commentSets) < Len(tasks)
            /\ commentSets' = Append(commentSets, [Set |-> tasks[pidx], Index |-> pidx])
    /\ pidx' = pidx + 1
    /\ UNCHANGED <<ppc, setsClosed, resultsCh, resultsClosed, wg, wk, closer, taken>>
    /\ UNCHANGED <<forest, tasks, results, arrived>>
    /\ UNCHANGED kOthers

\* service.go:656-661: the task channel is closed and the goroutine that waits for the
\* workers is started
CloseSets ==
    /\ ppc = "dispatch"
    /\ pidx > Len(tasks)
    /\ setsClosed' = TRUE
    /\ closer' = "wait"
    /\ ppc' = "collect"
    /\ UNCHANGED <<pidx, commentSets, resultsCh, resultsClosed, wg, wk, taken>>
    /\ UNCHANGED <<forest, tasks, results, arrived>>
    /\ UNCHANGED kOthers

\* service.go:725-726, 754-789: a worker receives a task; with no id but "continue"
\* fetchMoreCommentsFast returns at once, else one goroutine per batch of ids is started
\* (a goroutine not started yet is one that has not asked for the semaphore yet)
WorkerTake(w) ==
    /\ wk[w].pc = "recv"
    /\ Len(commentSets) > 0
    /\ LET work == Head(commentSets)
       IN /\ wk' = [wk EXCEPT ![w] = [pc |-> "wait", work |-> work.Index,
                                      sem |-> NumBatches(work.Index), flight |-> 0,
                                      all |-> <<>>]]
          /\ taken' = [taken EXCEPT ![work.Index] = @ + 1]
    /\ commentSets' = Tail(commentSets)
    /\ UNCHANGED <<ppc, pidx, setsClosed, resultsCh, resultsClosed, wg, closer>>
    /\ UNCHANGED <<forest, tasks, results, arrived>>
    /\ UNCHANGED kOthers

\* service.go:725, 637: the task channel is closed and drained: the worker returns
WorkerExit(w) ==
    /\ wk[w].pc = "recv"
    /\ Len(commentSets) = 0 /\ setsClosed
    /\ wk' = [wk EXCEPT ![w].pc = "exit"]
    /\ wg' = wg - 1
    /\ UNCHANGED <<ppc, pidx, commentSets, setsClosed, resultsCh, resultsClosed, closer, taken>>
    /\ UNCHANGED <<forest, tasks, results, arrived>>
    /\ UNCHANGED kOthers

SubAcquireFree(w) ==
    /\ wk[w].sem > 0
    /\ wk' = [wk EXCEPT ![w].sem = @ - 1, ![w].flight = @ + 1]

\* service.go:791: semaphore <- struct{}{} goes through while fewer than maxConcurrent
\* batch goroutines of the task hold it
SubAcquire(w) ==
    /\ wk[w].sem > 0
    /\ wk[w].flight < maxConcurrent
    /\ wk' = [wk EXCEPT ![w].sem = @ - 1, ![w].flight = @ + 1]

\* service.go:790-797: a batch goroutine gets the semaphore and sends its request
BatchStarts(w) ==
    /\ SubAcquire(w)
    /\ UNCHANGED <<ppc, pidx, commentSets, setsClosed, resultsCh, resultsClosed, wg, closer, taken>>
    /\ UNCHANGED <<forest, tasks, results, arrived>>
    /\ UNCHANGED kOthers

\* service.go:799-824, 790-792: the request of a batch ends; what was decoded is appended
\* to allComments under the mutex, then the semaphore is given back
BatchEnds(w) ==
    /\ wk[w].flight > 0
    /\ \E e \in RequestEnds("post"), a \in {<<>>, <<RawT1(wk[w].work, <<>>)>>} :
         wk' = [wk EXCEPT ![w].flight = @ - 1,
                          ![w].all = @ \o BatchComments(e, a, <<wk[w].work>>)]
    /\ UNCHANGED <<ppc, pidx, commentSets, setsClosed, resultsCh, resultsClosed, wg, closer, taken>>
    /\ UNCHANGED <<forest, tasks, results, arrived>>
    /\ UNCHANGED kOthers

WorkerSendTwice(w) ==
    /\ wk[w].pc = "wait"
    /\ wk[w].sem = 0 /\ wk[w].flight = 0
    /\ Len(resultsCh) < Len(tasks)
    /\ LET r == [Comments |-> wk[w].all, Set |-> tasks[wk[w].work], Index |-> wk[w].work]
       IN resultsCh' = IF Len(resultsCh) + 1 < Len(tasks) /\ Len(wk[w].all) > 0
                       THEN resultsCh \o <<r, r>> ELSE Append(resultsCh, r)
    /\ wk' = [wk EXCEPT ![w] = IdleWorker]
    /\ UNCHANGED <<ppc, pidx, commentSets, setsClosed, resultsClosed, wg, closer, taken>>
    /\ UNCHANGED <<forest, tasks, results, arrived>>
    /\ UNCHANGED kOthers

\* service.go:828, 728-744: every batch goroutine has returned; the worker sends the
\* result of the task, waiting while the channel holds len(moreSets) results
WorkerSend(w) ==
    /\ wk[w].pc = "wait"
    /\ wk[w].sem = 0 /\ wk[w].flight = 0
    /\ Len(resultsCh) < Len(tasks)
    /\ resultsCh' = Append(resultsCh, [Comments |-> wk[w].all, Set |-> tasks[wk[w].work],
                                       Index |-> wk[w].work])
    /\ wk' = [wk EXCEPT ![w] = IdleWorker]
    /\ UNCHANGED <<ppc, pidx, commentSets, setsClosed, resultsClosed, wg, closer, taken>>
    /\ UNCHANGED <<forest, tasks, results, arrived>>
    /\ UNCHANGED kOthers

\* service.go:658-661: every worker has returned; the results channel is closed
CloseResults ==
    /\ closer = "wait"
    /\ wg = 0
    /\ resultsClosed' = TRUE
    /\ closer' = "done"
    /\ UNCHANGED <<ppc, pidx, commentSets, setsClosed, resultsCh, wg, wk, taken>>
    /\ UNCHANGED <<forest, tasks, results, arrived>>
    /\ UNCHANGED kOthers

\* service.go:675-677: a result is received
Collect ==
    /\ ppc = "collect"
    /\ Len(resultsCh) > 0
    /\ results' = Append(results, Head(resultsCh))
    /\ resultsCh' = Tail(resultsCh)
    /\ UNCHANGED <<ppc, pidx, commentSets, setsClosed, resultsClosed, wg, wk, closer, taken>>
    /\ UNCHANGED <<forest, tasks, arrived>>
    /\ UNCHANGED kOthers

CollectEndEmpty ==
    /\ ppc = "collect"
    /\ Len(resultsCh) = 0
    /\ arrived' = [p \in 1..Len(results) |-> results[p].Index]
    /\ results' = SortByIndex(results)
    /\ ppc' = "graft"
    /\ UNCHANGED <<pidx, commentSets, setsClosed, resultsCh, resultsClosed, wg, wk, closer, taken>>
    /\ UNCHANGED <<forest, tasks>>
    /\ UNCHANGED kOthers

\* service.go:675-682: the results channel is closed and drained; the results gathered
\* are put in task order
CollectEnd ==
    /\ ppc = "collect"
    /\ Len(resultsCh) = 0 /\ resultsClosed
    /\ arrived' = [p \in 1..Len(results) |-> results[p].Index]
    /\ results' = SortByIndex(results)
    /\ ppc' = "graft"
    /\ UNCHANGED <<pidx, commentSets, setsClosed, resultsCh, resultsClosed, wg, wk, closer, taken>>
    /\ UNCHANGED <<forest, tasks>>
    /\ UNCHANGED kOthers

\* service.go:684-689: the next result, in task order, is grafted if it has comments
PoolGraft ==
    /\ ppc = "graft"
    /\ Len(results) > 0
    /\ IF Len(results[1].Comments) > 0
       THEN \E spare \in BOOLEAN :
              forest' = placeComments(forest, results[1].Set, results[1].Comments, spare)
       ELSE UNCHANGED forest
    /\ results' = Tail(results)
    /\ UNCHANGED kvars
    /\ UNCHANGED <<tasks, arrived>>
    /\ UNCHANGED kOthers

\* service.go:690-697: the round is over
PoolDone ==
    /\ ppc = "graft"
    /\ Len(results) = 0
    /\ ppc' = "done"
    /\ UNCHANGED <<pidx, commentSets, setsClosed, resultsCh, resultsClosed, wg, wk, closer, taken>>
    /\ UNCHANGED <<forest, tasks, results, arrived>>
    /\ UNCHANGED kOthers

\* service.go:571-612: a round that found tasks on a context that is not cancelled
InitPool ==
    /\ WalkIdle /\ ClientIdle /\ HandlerIdle /\ TransportIdle /\ ReplaceIdle /\ ActivityIdle
    /\ thread = "pool"
    /\ forest \in {processComments(t, 1, <<0>>) : t \in PoolThreads}
    /\ initial = forest
    /\ tasks = SubSeq(findMoreComments(forest), 1, Min(batchSize, Len(findMoreComments(forest))))
    /\ results = <<>> /\ arrived = <<>>
    /\ epc = "fetch" /\ iteration = 0 /\ remainingIDs = SumIDs(findMoreComments(forest))
    /\ stuckCount = 0 /\ cancelled = FALSE /\ exitReason = "none" /\ rounds = 1
    /\ budget = 0 /\ perr = "nil" /\ faults = {}
    /\ ppc = "start" /\ pidx = 0 /\ commentSets = <<>> /\ setsClosed = FALSE
    /\ resultsCh = <<>> /\ resultsClosed = FALSE /\ wg = 0 /\ wk = <<>>
    /\ closer = "none" /\ taken = <<>>

NextPool ==
    \/ StartWorkers
    \/ Dispatch
    \/ CloseSets
    \/ \E w \in 1..Len(wk) : WorkerTake(w)
    \/ \E w \in 1..Len(wk) : WorkerExit(w)
    \/ \E w \in 1..Len(wk) : BatchStarts(w)
    \/ \E w \in 1..Len(wk) : BatchEnds(w)
    \/ \E w \in 1..Len(wk) : WorkerSend(w)
    \/ CloseResults
    \/ Collect
    \/ CollectEnd
    \/ PoolGraft
    \/ PoolDone

SpecPool == InitPool /\ [][NextPool]_vars

(***************************************************************************)
(* replacePlaceholder on its own (service.go:1043-1059).                   *)
(***************************************************************************)
MaxList == 4         \* comments in the list the placeholder stands in
MaxNew == 3          \* fetched comments put in its place

\* the j-th comment of a list, as the decoder makes it
PlainComment(j) == processComments(<<RawT1(j, <<>>)>>, 1, <<0>>)[1]

\* the placeholder of a more node, as the decoder makes it
Placeholder == processComments(<<RawMore(<<Cid(NumIds)>>, PostID)>>, 1, <<0>>)[1]

\* a list of n entries with the placeholder at position i
ListWith(n, i) == [j \in 1..n |-> IF j = i THEN Placeholder ELSE PlainComment(j)]

\* k fetched comments, none of them in the list
Fetched(k) == [j \in 1..k |-> PlainComment(MaxList + j)]

\* service.go:1043-1059: the call
Replace ==
    /\ rcall # <<>> /\ rgot = <<>>
    /\ rgot' = replacePlaceholder(rcall.comments, rcall.pid, rcall.new, rcall.spare)
    /\ UNCHANGED rcall
    /\ UNCHANGED <<wvars, evars, cvars, hvars, tvars, kvars, avars>>

InitReplace ==
    /\ WalkIdle /\ ExpandIdle /\ ClientIdle /\ HandlerIdle /\ TransportIdle /\ PoolIdle /\ ActivityIdle
    /\ \E n \in 1..MaxList, k \in 1..MaxNew, spare \in BOOLEAN : \E i \in 1..n :
         rcall = [comments |-> ListWith(n, i), pid |-> Placeholder.id, new |-> Fetched(k),
                  spare |-> spare, at |-> i]
    /\ rgot = <<>>

NextReplace == Replace

SpecReplace == InitReplace /\ [][NextReplace]_vars

(***************************************************************************)
(* processComments on its own (parser.go:295-374).                         *)
(***************************************************************************)
\* parser.go:295-374: the call, on a context that is not cancelled
Decode ==
    /\ rcall # <<>> /\ rgot = <<>>
    /\ rgot' = [list |-> processComments(rcall.children, 1, <<0>>)]
    /\ UNCHANGED rcall
    /\ UNCHANGED <<wvars, evars, cvars, hvars, tvars, kvars, avars>>

InitDecode ==
    /\ WalkIdle /\ ExpandIdle /\ ClientIdle /\ HandlerIdle /\ TransportIdle /\ PoolIdle /\ ActivityIdle
    /\ \E t \in InitialThreads : rcall = [children |-> t]
    /\ rgot = <<>>

NextDecode == Decode

SpecDecode == InitDecode /\ [][NextDecode]_vars

(***************************************************************************)
(* placeComments on its own (service.go:947-1003).                         *)
(***************************************************************************)
MaxBatch == 2        \* fetched comments in one call

\* the id of a comment that is not in the tree (any more)
GoneID == Cid(NumIds + MaxBatch + 1)

\* the tasks a graft may come for: those found in the forest, and those found before
\* their parent and placeholder left the tree
PlaceSets(f) ==
    LET found == findMoreComments(f)
    IN {found[i] : i \in 1..Len(found)}
       \cup {Task(GoneID, found[i].CommentIDs, found[i].Depth, MoreKey(GoneID)) :
               i \in 1..Len(found)}

\* the batches: comments of the ids asked for and of fresh ids, repeats included
PlaceBatches ==
    SeqsUpTo({PlainComment(n) : n \in NumIds..(NumIds + MaxBatch)}, MaxBatch) \ {<<>>}

\* service.go:947-1003: the call
PlaceCall ==
    /\ rcall # <<>> /\ rgot = <<>>
    /\ \E spare \in BOOLEAN :
         rgot' = [list |-> placeComments(rcall.comments, rcall.set, rcall.new, spare)]
    /\ UNCHANGED rcall
    /\ UNCHANGED <<wvars, evars, cvars, hvars, tvars, kvars, avars>>

InitPlace ==
    /\ WalkIdle /\ ExpandIdle /\ ClientIdle /\ HandlerIdle /\ TransportIdle /\ PoolIdle /\ ActivityIdle
    /\ \E t \in InitialThreads : \E new \in PlaceBatches :
         LET f == processComments(t, 1, <<0>>)
         IN \E set \in PlaceSets(f) : rcall = [comments |-> f, set |-> set, new |-> new]
    /\ rgot = <<>>

NextPlace == PlaceCall

SpecPlace == InitPlace /\ [][NextPlace]_vars

(***************************************************************************)
(* The ids one task sends to load-more: fetchMoreCommentsFast up to its    *)
(* calls of FetchMoreComments, called on its own.                          *)
(***************************************************************************)
MaxIdTail == 2       \* ids before and after the filling of a long child list

\* the id of comment n as "t1_" + id
PrefixedCid(n) == <<"t1_c", n>>

\* strings.TrimPrefix(id, "t1_")
TrimPrefix(id) == IF id[1] = "t1_c" THEN Cid(id[2]) ELSE id

\* service.go:754-760: "continue" is dropped and the prefix taken off
validIDs(ids) ==
    LET kept == SelectSeq(ids, LAMBDA id : id # Continue)
    IN [i \in 1..Len(kept) |-> TrimPrefix(kept[i])]

\* service.go:915-945: of the ids other than "continue", prefix taken off, the
\* first occurrence of each in the order of the list, up to lim of them
processCommentIDs(ids, lim) ==
    LET clean == validIDs(ids)
        first == {i \in 1..Len(clean) : \A j \in 1..(i - 1) : clean[j] # clean[i]}
        unique == [k \in 1..Cardinality(first) |->
                      clean[CHOOSE i \in first : Cardinality({j \in first : j <= i}) = k]]
    IN SubSeq(unique, 1, Min(lim, Len(unique)))

\* service.go:778-799: the id lists FetchMoreComments is called with, by batch
\* number; a batch that comes out empty makes no call
MoreRequests(ids) ==
    LET batches == Batches(validIDs(ids))
        processed == [k \in 1..Len(batches) |-> processCommentIDs(batches[k], Len(batches[k]))]
    IN SelectSeq(processed, LAMBDA b : Len(b) > 0)

\* child lists of more than one batch: a filling of distinct ids between a few
\* ids that may be prefixed, repeated or "continue"
IdFilling == [i \in 1..(subBatchSize - 1) |-> Cid(NumIds + i)]

IdEnds == SeqsUpTo({Cid(1), PrefixedCid(1), Cid(2), Continue}, MaxIdTail)

FetchIDs ==
    /\ rcall # <<>> /\ rgot = <<>>
    /\ rgot' = [requests |-> MoreRequests(rcall.ids)]
    /\ UNCHANGED rcall
    /\ UNCHANGED <<wvars, evars, cvars, hvars, tvars, kvars, avars>>

InitIds ==
    /\ WalkIdle /\ ExpandIdle /\ ClientIdle /\ HandlerIdle /\ TransportIdle /\ PoolIdle /\ ActivityIdle
    /\ \E head \in IdEnds, tail \in IdEnds, long \in BOOLEAN :
         rcall = [ids |-> head \o (IF long THEN IdFilling ELSE <<>>) \o tail]
    /\ rgot = <<>>

NextIds == FetchIDs

SpecIds == InitIds /\ [][NextIds]_vars

(***************************************************************************)
(* ScrapeUserActivity, goroutine by goroutine (service.go:184-256).  The   *)
(* walkers themselves are followed above; here each is a call that returns *)
(* a list or an error.                                                     *)
(***************************************************************************)
\* what a walker may return without error
WalkerLists(w) == SeqsUpTo({[of |-> w, id |-> n] : n \in 1..2}, 2)

\* a send on a channel made with make(chan ..., 1) while nobody receives
CanSendUnbuffered(buf) == FALSE

\* service.go:207-208: make(chan ..., 1): a send goes through while the buffer has room
CanSend(buf) == Len(buf) < 1

aOthers == <<wvars, evars, cvars, hvars, tvars, kvars, rvars>>

\* service.go:192-203: the profile request fails and ScrapeUserActivity returns
AboutFails ==
    /\ apc = "about"
    /\ \E e \in {"fetch user info", "parse user info"} : activity' = [NoActivity EXCEPT !.err = e]
    /\ apc' = "done"
    /\ UNCHANGED <<gr, chans, awg, errs>>
    /\ UNCHANGED aOthers

\* service.go:205-232: the profile is in, wg.Add(2), and the two goroutines are started
AboutOk ==
    /\ apc = "about"
    /\ awg' = 2
    /\ gr' = [w \in Walkers2 |-> [pc |-> "run", list |-> <<>>]]
    /\ apc' = "wait"
    /\ UNCHANGED <<chans, errs, activity>>
    /\ UNCHANGED aOthers

\* service.go:214-220 (and 225-231): the walker of goroutine w returns; on an
\* error the goroutine sets its error variable and ends (deferred wg.Done)
WalkerReturns(w) ==
    /\ gr[w].pc = "run"
    /\ \/ /\ errs' = [errs EXCEPT ![w] = IF w = "posts" THEN "fetch user posts"
                                          ELSE "fetch user comments"]
          /\ gr' = [gr EXCEPT ![w].pc = "done"]
          /\ awg' = awg - 1
       \/ /\ \E list \in WalkerLists(w) : gr' = [gr EXCEPT ![w] = [pc |-> "send", list |-> list]]
          /\ UNCHANGED <<errs, awg>>
    /\ UNCHANGED <<apc, chans, activity>>
    /\ UNCHANGED aOthers

\* service.go:220 (and 231): the send on the result channel, then the deferred wg.Done
WalkerSends(w) ==
    /\ gr[w].pc = "send"
    /\ CanSend(chans[w].buf)
    /\ chans' = [chans EXCEPT ![w].buf = Append(@, gr[w].list)]
    /\ gr' = [gr EXCEPT ![w].pc = "done"]
    /\ awg' = awg - 1
    /\ UNCHANGED <<apc, errs, activity>>
    /\ UNCHANGED aOthers

PostsReturns == WalkerReturns("posts")

CommentsReturns == WalkerReturns("comments")

PostsSends == WalkerSends("posts")

CommentsSends == WalkerSends("comments")

\* service.go:234-236: wg.Wait returns and both channels are closed
WaitReturns ==
    /\ apc = "wait" /\ awg = 0
    /\ chans' = [w \in Walkers2 |-> [chans[w] EXCEPT !.closed = TRUE]]
    /\ apc' = "check"
    /\ UNCHANGED <<gr, awg, errs, activity>>
    /\ UNCHANGED aOthers

\* posts, ok := <-ch on a closed channel: the buffered value, or nothing
Received(w) == IF Len(chans[w].buf) > 0 THEN chans[w].buf[1] ELSE <<>>

\* service.go:238-255: the errors are looked at, then the channels are read
ActivityReturns ==
    /\ apc = "check"
    /\ activity' = IF errs["posts"] # "nil" THEN [NoActivity EXCEPT !.err = errs["posts"]]
                   ELSE IF errs["comments"] # "nil" THEN [NoActivity EXCEPT !.err = errs["comments"]]
                   ELSE [Posts |-> Received("posts"), Comments |-> Received("comments"), err |-> "nil"]
    /\ chans' = IF errs["posts"] # "nil" \/ errs["comments"] # "nil" THEN chans
                ELSE [w \in Walkers2 |-> [chans[w] EXCEPT !.buf = IF Len(@) > 0 THEN Tail(@) ELSE @]]
    /\ apc' = "done"
    /\ UNCHANGED <<gr, awg, errs>>
    /\ UNCHANGED aOthers

InitActivity ==
    /\ WalkIdle /\ ExpandIdle /\ ClientIdle /\ HandlerIdle /\ TransportIdle /\ PoolIdle /\ ReplaceIdle
    /\ apc = "about" /\ gr = [w \in Walkers2 |-> [pc |-> "none", list |-> <<>>]]
    /\ chans = [w \in Walkers2 |-> [buf |-> <<>>, closed |-> FALSE]]
    /\ awg = 0 /\ errs = [w \in Walkers2 |-> "nil"] /\ activity = NoActivity

NextActivity ==
    \/ AboutFails
    \/ AboutOk
    \/ PostsReturns
    \/ CommentsReturns
    \/ PostsSends
    \/ CommentsSends
    \/ WaitReturns
    \/ ActivityReturns

SpecActivity == InitActivity /\ [][NextActivity]_vars

(***************************************************************************)
(* Properties of the listing walkers (checked under SpecWalk).             *)
(***************************************************************************)
WalkDone == wpc = "done"

WalkOk == WalkDone /\ werr = "nil"

\* the page holds an item created before the cutoff
HasOlder(page) == \E i \in 1..Len(page) : page[i].created < since

\* every item upstream served that is not older than the cutoff, in upstream order
AllKept == SelectSeq(Flatten(pages), LAMBDA p : since = 0 \/ p.created >= since)

\* the first n items of a list (all of it when it is shorter)
FirstN(s, n) == SubSeq(s, 1, Min(n, Len(s)))

\* C3: with a positive limit L, the list a walker returns without error has
\* at most L items.
C3_LimitRespected == (WalkOk /\ limit > 0) => Len(ret) <= limit

\* a walk that ended with more retained items than the limit, cut to the limit
C3_Witness ==
    /\ WalkOk /\ limit > 0 /\ walker = "subreddit"
    /\ Len(AllKept) > limit /\ Len(ret) = limit

\* C4: with since_timestamp = T > 0, every item of the returned list has a
\* creation instant >= T (in every limit mode, on every exit of the walker).
C4_SinceRespected ==
    (WalkDone /\ since > 0) => \A i \in 1..Len(ret) : ret[i].created >= since

\* a walk with a cutoff that was served an older item and returned a non-empty list
C4_Witness ==
    /\ WalkOk /\ since > 0 /\ Len(ret) > 0
    /\ HasOlder(Flatten(pages))

\* C5: with limit = 0 a walker that returns without error has issued exactly
\* one upstream page fetch.
C5_LimitZeroOnePage == (WalkOk /\ limit = 0) => Len(pages) = 1

\* C6: a walker that observes cancellation returns the accumulated items with
\* no error when at least one item was accumulated, and the cancellation
\* error only when none was.
C6_CancelReturnsPartial ==
    (WalkDone /\ stopReason = "ctx") =>
        IF Len(posts) > 0 THEN werr = "nil" /\ ret = posts ELSE werr = "ctx"

\* upstream kept returning non-empty pages with a next cursor, no item was
\* older than the cutoff, and neither deadline nor cancellation nor a failure
\* ended the walk
Benign ==
    /\ WalkOk /\ stopReason \notin {"deadline", "ctx"}
    /\ \A k \in 1..Len(pages) :
          /\ Len(pages[k]) > 0
          /\ got[k] # NoCursor
          /\ ~(since > 0 /\ HasOlder(pages[k]))

\* C7 as stated: with a positive limit L and a benign upstream the walker
\* returns exactly L items.
C7_ReachesLimit == (Benign /\ limit > 0) => Len(ret) = limit

\* the page ceiling of each walker for a positive limit L
C7_PageCeiling ==
    CASE walker = "subreddit" -> 20
      [] walker = "search" -> 2 * ((limit + Min(limit, 100) - 1) \div Min(limit, 100))
      [] OTHER -> IF limit <= 25 /\ since = 0 THEN 1
                  ELSE Min(50, 2 * ((limit \div 25) + 1))

\* C7 amended: with a positive limit L and a benign upstream the walker
\* returns the first L items served, or, when its page ceiling is reached
\* first, all the items of the pages up to the ceiling.
C7_ReachesLimitOrCeiling ==
    (Benign /\ limit > 0) =>
        /\ ret = FirstN(Flatten(pages), limit)
        /\ Len(ret) = limit \/ Len(pages) = C7_PageCeiling

\* a walk over two benign pages that needed both to reach the limit
C7_Witness ==
    /\ Benign /\ limit > 0 /\ Len(pages) = 2
    /\ Len(pages[1]) < limit /\ Len(ret) = limit

\* C8: with since_timestamp = T > 0 and limit = -1 a walker issues no fetch
\* after a page that contains an item older than T, and returns exactly the
\* items of the fetched pages that are not older than T, in upstream order.
C8_StopsAtCutoff ==
    (WalkOk /\ since > 0 /\ limit = -1) =>
        /\ \A k \in 1..(Len(pages) - 1) : ~HasOlder(pages[k])
        /\ ret = AllKept

\* creation instants never increase along the served items
Monotone ==
    LET all == Flatten(pages)
    IN \A i \in 1..(Len(all) - 1) : all[i].created >= all[i + 1].created

\* a walk over decreasing instants that met the cutoff in its second page,
\* which carried a next cursor
C8_Witness ==
    /\ WalkOk /\ since > 0 /\ limit = -1 /\ Monotone
    /\ Len(pages) = 2 /\ got[2] # NoCursor
    /\ HasOlder(pages[2])
    /\ Len(ret) = 2

(***************************************************************************)
(* Properties of ScrapePost (checked under SpecExpand and FairEndless).    *)
(***************************************************************************)
Returned == epc = "done"

\* every load-more call of the run came back empty and nothing was cancelled
Unanswered == thread = "finite" /\ budget = MaxReplies /\ ~cancelled

RECURSIVE HasPlaceholder(_)
HasPlaceholder(comments) ==
    \E i \in 1..Len(comments) : comments[i].isMore \/ HasPlaceholder(comments[i].replies)

\* a placeholder d lists deep or deeper (the root list is 1)
RECURSIVE PlaceholderAtDepth(_, _)
PlaceholderAtDepth(comments, d) ==
    \E i \in 1..Len(comments) :
        \/ d <= 1 /\ comments[i].isMore
        \/ PlaceholderAtDepth(comments[i].replies, d - 1)

RECURSIVE ListsUnique(_)
ListsUnique(comments) ==
    /\ \A i, j \in 1..Len(comments) : i # j => comments[i].id # comments[j].id
    /\ \A i \in 1..Len(comments) : ListsUnique(comments[i].replies)

\* C1: the PostDetail that ScrapePost returns holds no comment with IsMore set,
\* at any depth of the forest, whatever thread was fetched, whatever load-more
\* answered and whichever way the expansion loop was left.
C1_NoPlaceholderReturned == Returned => ~HasPlaceholder(forest)

\* a thread with a placeholder in the third list, which no answer replaced,
\* was returned with comments in it
C1_Witness ==
    /\ Returned /\ Unanswered /\ exitReason = "stuck"
    /\ PlaceholderAtDepth(initial, 3)
    /\ Len(forest) > 0

\* C2: in the forest that ScrapePost returns no list of comments (the root
\* list, the replies of a comment) holds two comments of the same id.
C2_UniqueIds == Returned => ListsUnique(forest)

\* C9: the expansion loop comes to an end: never more than 60 rounds, the loop
\* is left only for want of tasks, at the stuck limit or at the iteration cap,
\* and ScrapePost does return.
C9_Bounded ==
    /\ iteration <= 60 /\ rounds <= 60
    /\ Returned => exitReason \in {"noTasks", "stuck", "cap"}
    /\ exitReason = "stuck" => stuckCount = 3
    /\ exitReason = "cap" => iteration = 60

C9_Terminates == []C9_Bounded /\ <>Returned

\* sixty rounds were dispatched, the stuck counter never reached its limit
C9_Witness == Returned /\ exitReason = "cap" /\ rounds = 60 /\ thread = "endless"

RootPlaceholder(comments) ==
    \E i \in 1..Len(comments) : comments[i].isMore /\ Len(comments[i].moreIDs) > 0

\* C10: a thread with a placeholder of a non-empty child list in its root list,
\* with every load-more call answering nothing (and no cancellation): work is
\* dispatched in exactly 3 rounds, ScrapePost returns, and the root list
\* holds no placeholder.
C10_ThreeRounds ==
    (Returned /\ Unanswered /\ RootPlaceholder(initial)) =>
        /\ rounds = 3
        /\ exitReason = "stuck"
        /\ \A i \in 1..Len(forest) : ~forest[i].isMore

C10_Witness ==
    /\ Returned /\ Unanswered /\ RootPlaceholder(initial)
    /\ Len(initial) > 1
    /\ rounds = 3

Ids(comments) == [i \in 1..Len(comments) |-> comments[i].id]

\* two comments, the newer first; the order of the answer when neither is newer
NewestFirst2(cs) == IF cs[1].created < cs[2].created THEN <<cs[2], cs[1]>> ELSE cs

\* the root list is [c1, placeholder of 2 ids] and the answer to the
\* placeholder's task, two plain comments of other ids, is about to be grafted
C11_Scenario ==
    /\ epc = "place" /\ Len(results) > 0
    /\ Len(forest) = 2 /\ ~forest[1].isMore /\ forest[2].isMore
    /\ Len(forest[2].moreIDs) = 2
    /\ results[1].Set.PlaceholderID = forest[2].id
    /\ Len(results[1].Comments) = 2
    /\ Cardinality({forest[1].id, results[1].Comments[1].id, results[1].Comments[2].id}) = 3

C11_Grafted == C11_Scenario /\ Len(results') < Len(results)

\* C11 as claimed: root list [c1, placeholder{m1, m2}], load-more answers
\* [c_m1, c_m2]: the root list becomes [c1, c_m1, c_m2], the fetched comments
\* in the order of the answer at the placeholder's position.
C11_AnswerOrder ==
    [][C11_Grafted => Ids(forest') = <<forest[1].id>> \o Ids(results[1].Comments)]_vars

\* C11, amended: the root list becomes c1 followed by the two fetched comments,
\* the newer first (the order of the answer when neither is newer); no
\* placeholder remains and the ids are unique.
C11_NewestFirst ==
    [][C11_Grafted =>
          /\ Ids(forest') = <<forest[1].id>> \o Ids(NewestFirst2(results[1].Comments))
          /\ ~HasPlaceholder(forest')
          /\ ListsUnique(forest')]_vars

\* such a thread was returned with the newer of the fetched comments first
C11_Witness ==
    /\ Returned /\ ~cancelled /\ thread = "graft"
    /\ Len(initial) = 2 /\ ~initial[1].isMore /\ initial[2].isMore
    /\ Len(forest) = 3 /\ forest[1].id = initial[1].id
    /\ forest[2].created > forest[3].created

\* C12: within a round the results are grafted in the order of the tasks
\* (ascending task index), whatever the order in which the workers finished:
\* the result grafted next is the first of those left, and those are in task
\* order.
C12_TaskOrder ==
    epc = "place" =>
        \A i, j \in 1..Len(results) : i < j => results[i].Index < results[j].Index

\* two results that came in against the order of their tasks wait to be grafted
C12_Witness ==
    /\ epc = "place" /\ Len(results) = 2
    /\ Len(arrived) = 2 /\ arrived[1] > arrived[2]

\* a result is taken off the round's list and grafted
Grafting == epc = "place" /\ Len(results) > 0 /\ Len(results') < Len(results)

\* C13: with the same upstream answers two runs of ScrapePost return the same
\* forest, whatever the scheduling: each graft leaves the forest that it
\* leaves in the run where the requests of a task complete in the order they
\* were sent.
C13_SameAsInOrder ==
    [][Grafting =>
          \E spare \in BOOLEAN :
              forest' = placeComments(forest, results[1].Set, results[1].InOrder, spare)]_vars

\* C14: no task stands for a thread continuation: none for the node the
\* decoder emits for a more node whose children hold "continue" (neither as a
\* placeholder nor by its has-more flag), and none whose ids hold "continue".
C14_NoContinuationTask ==
    \A i \in 1..Len(tasks) :
        /\ tasks[i].PlaceholderID[1] # "continue_"
        /\ ~(tasks[i].PlaceholderID[1] = "key" /\ tasks[i].PlaceholderID[2][1] = "continue_")
        /\ ~HasContinue(tasks[i].CommentIDs)

(***************************************************************************)
(* Properties of RetryableClient.Do (checked under SpecClient).            *)
(***************************************************************************)
\* a step in which Do makes an attempt
Attempted == tries' = tries + 1

TransportFault(o) == o.class = "transport"
RetryStatus(o) == o.class # "transport" /\ (o.status = 429 \/ (o.status >= 500 /\ o.status <= 599))

\* C15: Do starts a further attempt exactly when the attempt just made ended in a transport
\* error, a 429 or a 5xx response and fewer than maxRetries attempts have been made; any
\* other response ends the loop at that attempt and is returned as success; the attempts
\* never exceed maxRetries, and 2^attempt seconds are slept before attempt attempt+1.
C15_RetryPolicy ==
    [][/\ Attempted =>
            /\ tries' <= maxRetries
            /\ (dpc' = "sleep") <=> ((TransportFault(last') \/ RetryStatus(last')) /\ tries' < maxRetries)
            /\ ~(TransportFault(last') \/ RetryStatus(last')) => dpc' = "done" /\ dret'.kind = "ok"
       /\ (dpc = "sleep" /\ dpc' = "send") => waited' = 2^tries]_vars

\* C16: for a request with a body, every attempt sends a body byte-equal to the body the
\* request came with (wire is the request of the latest attempt, at every state of the run).
C16_BodyReplayed == (hasBody /\ wire.sent) => wire.body = reqBody

\* a second attempt has gone out with a non-empty body
C16_Witness == hasBody /\ ~ctxDone /\ tries >= 2 /\ wire.sent /\ Len(wire.body) > 0

\* C17: when all maxRetries attempts have failed, the error Do returns states the attempt
\* count and carries the final attempt's failure as its cause, after a final transport
\* error as well as after a final 429 or 5xx response.
C17_ExhaustionError ==
    (dpc = "done" /\ dret.kind = "err" /\ tries = maxRetries
                  /\ (TransportFault(last) \/ RetryStatus(last)))
        => /\ dret.count = <<maxRetries>>
           /\ IF TransportFault(last) THEN dret.cause = last.cause ELSE dret.status = last.status

\* a retry backoff is being slept
InBackoff == dpc = "sleep" \/ fpc \in {"sleep", "sleep429"}

\* C18: once the request context is cancelled, a backoff sleep of Do or of FetchMoreComments
\* that is under way ends with the operation's return, not with another attempt, and no
\* backoff sleep is begun.
C18_CancelEndsBackoff ==
    [][ctxDone =>
          /\ dpc = "sleep" => (dpc' = "done" /\ tries' = tries)
          /\ fpc \in {"sleep", "sleep429"} => (fpc' = "done" /\ dpc' # "call")
          /\ ~InBackoff => ~InBackoff']_vars

\* C19: a request that reaches the transport with a User-Agent header goes upstream with
\* that User-Agent, with randomization enabled and with it disabled.
C19_UserAgentPreserved == (wire.sent /\ reqUA # "") => wire.ua = reqUA

(***************************************************************************)
(* Properties of the proxy rotator (checked under SpecProxy).              *)
(***************************************************************************)
\* C20: the calls GetProxyForID(0), GetProxyForID(1), ... return the pool entry at index
\* id mod N, and every N consecutive calls return every entry of the pool exactly once.
C20_RoundRobin ==
    LET n == Len(parsedURLs)
    IN /\ \A i \in 1..Len(calls) : calls[i].id = i - 1 /\ calls[i].got = ((i - 1) % n) + 1
       /\ \A s \in 1..Len(calls) :
             s + n - 1 <= Len(calls) => {calls[j].got : j \in s..(s + n - 1)} = 1..n

\* a pool of several proxies has been gone through more than once
C20_Witness == Len(parsedURLs) >= 2 /\ Len(calls) >= 2 * Len(parsedURLs)

\* C21: the j-th NextProxy call on a new rotator (j = 0, 1, 2, ...) returns the pool entry at
\* index j mod N, the first call the first entry, and every call adds one to the counter.
C21_NextFromFirst ==
    /\ currentIdx = Len(nexts)
    /\ \A j \in 1..Len(nexts) : nexts[j] = ((j - 1) % Len(parsedURLs)) + 1

(***************************************************************************)
(* Properties of the handlers and of ScrapeUserActivity (checked under     *)
(* SpecHandler).                                                           *)
(***************************************************************************)
WalkerErrName(w) == IF w = "userPosts" THEN "fetch user posts" ELSE "fetch user comments"
OtherWalker(w) == IF w = "userPosts" THEN "userComments" ELSE "userPosts"

\* the walker of ScrapeUserActivity that failed first
FirstFailure ==
    IF werr # "nil" /\ sibling = "err"
    THEN (IF siblingLate THEN WalkerErrName(walker) ELSE WalkerErrName(OtherWalker(walker)))
    ELSE IF werr # "nil" THEN WalkerErrName(walker) ELSE WalkerErrName(OtherWalker(walker))

\* C22: if the posts walker or the comments walker of ScrapeUserActivity fails, the operation
\* fails, with the error of the walker that failed first, whichever walker that is.
C22_FirstFailureReturned ==
    (endpoint = "user" /\ hpc = "done" /\ sibling # "none" /\ (werr # "nil" \/ sibling = "err"))
        => (hstatus = 502 /\ serr = FirstFailure)

\* a limit parameter of the request is a number below -1
LimitBelow ==
    \/ Atoi(query.limit).ok /\ Atoi(query.limit).v < -1
    \/ endpoint = "user" /\ Atoi(query.commentLimit).ok /\ Atoi(query.commentLimit).v < -1

\* C23: on every endpoint a limit below -1 is answered 400 without the service being called:
\* no walker starts and nothing is requested upstream.
C23_LowLimitRejected ==
    (hpc \notin {"idle", "recv"} /\ LimitBelow)
        => (hpc = "done" /\ hstatus = 400 /\ wpc = "idle" /\ sent = <<>> /\ ~profiled)

InitialFetched == epc \in {"find", "fetch", "place"} \/ (epc = "done" /\ exitReason # "none")

\* C25: once the initial post fetch and decode have succeeded, nothing that happens during
\* expansion (a load-more request that fails, a load-more payload that does not parse, a
\* cancelled context) becomes an error of ScrapePost: it returns the detail with a nil error.
C25_NoExpansionError == InitialFetched => perr = "nil"

\* ScrapePost has returned a thread after a failed request, a rejected payload and a cancellation
C25_Witness ==
    /\ epc = "done" /\ exitReason # "none" /\ cancelled
    /\ "fetch" \in faults /\ "parse" \in faults
    /\ Len(forest) > 0 /\ perr = "nil"

(***************************************************************************)
(* Properties of the transport under concurrent requests (checked under    *)
(* SpecTransport).                                                         *)
(***************************************************************************)
\* C26: every request is dialed through the proxy picked for it and, for https, with the
\* ClientHello of the browser family its headers were shaped for, whatever other requests
\* are in flight; and the rotator counter is the only shared state written meanwhile.
C26_OwnProxyAndHello ==
    /\ \A q \in 1..Len(tpc) :
         tpc[q] = "done" =>
            /\ treq[q].dialed.proxy = treq[q].proxy
            /\ treq[q].scheme = "https" => treq[q].dialed.hello = treq[q].browser
    /\ writes \subseteq {"currentIdx"}

(***************************************************************************)
(* Properties of the goroutines of one round (checked under SpecPool).     *)
(***************************************************************************)
\* every worker has returned
WorkersDone == Len(wk) = workerCount /\ \A w \in 1..Len(wk) : wk[w].pc = "exit"

\* C27: during a round the comment tree changes only in a step of the expansion loop's
\* grafting, never in a step of a worker or of a batch goroutine, and it differs from the
\* tree the round started with only once every worker has returned and the results
\* channel is closed.
C27_LoopOwnsTree ==
    /\ [](forest # initial => (WorkersDone /\ resultsClosed /\ ppc \in {"graft", "done"}))
    /\ [][forest' # forest => (ppc = "graft" /\ UNCHANGED <<wk, resultsCh, commentSets>>)]_vars

C27_Witness ==
    /\ ppc = "done" /\ forest # initial /\ Len(tasks) > workerCount
    /\ \E p \in 1..(Len(arrived) - 1) : arrived[p] > arrived[p + 1]

\* the tasks whose result was sent
Resolved ==
    {resultsCh[p].Index : p \in 1..Len(resultsCh)} \cup {results[p].Index : p \in 1..Len(results)}
    \cup {arrived[p] : p \in 1..Len(arrived)}

\* the tasks received by a worker whose result was not sent yet
InResolution == {i \in 1..Len(taken) : taken[i] > 0 /\ i \notin Resolved}

\* C28: at every moment of a round at most workerCount tasks are received and not yet
\* answered, and the batch goroutines of one task hold at most maxConcurrent requests
\* in flight.
C28_BoundedConcurrency ==
    /\ Cardinality(InResolution) <= workerCount
    /\ \A w \in 1..Len(wk) : wk[w].flight <= maxConcurrent

C28_Witness ==
    /\ Cardinality(InResolution) = workerCount /\ Len(commentSets) > 0
    /\ \E w \in 1..Len(wk) : wk[w].flight = maxConcurrent /\ wk[w].sem > 0

\* the tasks the dispatch loop has put on the task channel
Submitted == {i \in 1..Len(tasks) : i < pidx /\ Len(tasks[i].CommentIDs) > 0}

\* the results sent so far, wherever they are
ResultsOf(i) ==
    IF ppc \in {"graft", "done"} THEN Len(SelectSeq(arrived, LAMBDA x : x = i))
    ELSE Len(SelectSeq(resultsCh, LAMBDA r : r.Index = i))
         + Len(SelectSeq(results, LAMBDA r : r.Index = i))

\* C29: in a round every task is received by at most one worker and answered by at most
\* one result; a send on the task channel or on the results channel never has to wait;
\* some goroutine can always move until the round is over; and when the collection loop
\* has ended every task put on the task channel was received once and answered once.
C29_OneResultPerTask ==
    /\ \A i \in 1..Len(taken) : taken[i] <= 1 /\ ResultsOf(i) <= taken[i]
    /\ (ppc = "dispatch" /\ pidx <= Len(tasks)) => Len(commentSets) < Len(tasks)
    /\ \A w \in 1..Len(wk) :
         (wk[w].pc = "wait" /\ wk[w].sem = 0 /\ wk[w].flight = 0) => Len(resultsCh) < Len(tasks)
    /\ ppc # "done" => ENABLED NextPool
    /\ ppc \in {"graft", "done"} =>
         /\ Len(arrived) = Cardinality(Submitted)
         /\ \A i \in Submitted : taken[i] = 1 /\ ResultsOf(i) = 1

C29_Witness ==
    /\ ppc = "graft" /\ Len(arrived) = workerCount + 1 /\ Len(results) = Len(arrived)
    /\ arrived[1] = workerCount /\ arrived[Len(arrived)] = 1
    /\ \E p \in 1..Len(results) : Len(results[p].Comments) = 0

(***************************************************************************)
(* Properties of replacePlaceholder (checked under SpecReplace).           *)
(***************************************************************************)
\* C30: replacePlaceholder, with the placeholder at any position of the list and at least
\* one fetched comment, leaves the entries before the placeholder, then the fetched
\* comments, then the entries after the placeholder, unchanged and in their order, for
\* every length of the list and whether or not its array has room to spare.
C30_SiblingsKept ==
    rgot # <<>> =>
       /\ rgot.ok
       /\ rgot.list = SubSeq(rcall.comments, 1, rcall.at - 1) \o rcall.new
                      \o SubSeq(rcall.comments, rcall.at + 1, Len(rcall.comments))

(***************************************************************************)
(* Properties of the decoder (checked under SpecDecode).                   *)
(***************************************************************************)
\* the Things of a thread at every depth
RECURSIVE ThingsIn(_, _)
ThingsIn(things, i) ==
    IF i > Len(things) THEN {}
    ELSE {things[i]} \cup ThingsIn(things[i].replies, 1) \cup ThingsIn(things, i + 1)

\* the comments of a forest at every depth
RECURSIVE CommentsIn(_, _)
CommentsIn(comments, i) ==
    IF i > Len(comments) THEN {}
    ELSE {comments[i]} \cup CommentsIn(comments[i].replies, 1) \cup CommentsIn(comments, i + 1)

\* the more nodes with children among the replies of a Thing
MoreReplies(thing) ==
    {k \in 1..Len(thing.replies) :
        thing.replies[k].kind = "more" /\ Len(thing.replies[k].children) > 0}

\* C31: a t1 comment whose replies hold a more node with children is decoded into a
\* comment that has the child ids in more_ids and has_more_children set, and whose
\* decoded replies hold no placeholder for that more node.
C31_MoreFoldedIntoParent ==
    rgot # <<>> =>
       \A thing \in ThingsIn(rcall.children, 1) :
          (thing.kind = "t1" /\ MoreReplies(thing) # {}) =>
             \E c \in CommentsIn(rgot.list, 1) :
                /\ c.id = thing.id /\ c.hasMore
                /\ \A k \in MoreReplies(thing) : \A x \in 1..Len(thing.replies[k].children) :
                      \E y \in 1..Len(c.moreIDs) : c.moreIDs[y] = thing.replies[k].children[x]
                /\ \A r \in 1..Len(c.replies) : ~c.replies[r].isMore

\* the ids of the list a graft is aimed at: the root list for a task of depth 0, the
\* replies of the parent for a deeper one, the root list when the parent is not in the tree
TargetIds(f, set) ==
    LET parents == {c \in CommentsIn(f, 1) : c.id = set.Parent}
    IN IF set.Depth = 0 \/ parents = {} THEN {f[j].id : j \in 1..Len(f)}
       ELSE UNION {{c.replies[j].id : j \in 1..Len(c.replies)} : c \in parents}

\* C32: after placeComments with a batch that is not empty every comment id of the batch
\* is in the list the graft was aimed at (the root list, or the replies of the parent, or
\* the root list when the parent is not in the tree): no fetched comment is dropped.
C32_NothingDropped ==
    rgot # <<>> =>
       \A j \in 1..Len(rcall.new) : rcall.new[j].id \in TargetIds(rgot.list, rcall.set)

\* a batch of two came for a reply list whose parent is not in the tree and went to the root
C32_Witness ==
    /\ rgot # <<>> /\ rcall.set.Depth > 0 /\ rcall.set.Parent = GoneID
    /\ Len(rcall.comments) > 0
    /\ Len(rcall.new) = MaxBatch /\ rcall.new[1].id # rcall.new[2].id
    /\ \A j \in 1..Len(rcall.new) : \E k \in 1..Len(rgot.list) : rgot.list[k].id = rcall.new[j].id

(***************************************************************************)
(* Cursors and accumulation of the walkers (checked under SpecWalk).       *)
(***************************************************************************)
\* page k holds an item that is not older than the cutoff
Retains(k) == \E j \in 1..Len(pages[k]) : since = 0 \/ pages[k][j].created >= since

\* the limit in force: Search turns -1 without a cutoff into 1000 (service.go:1159-1161)
LimitInForce == IF walker = "search" THEN SearchLimit(since, limit) ELSE limit

\* C33: in every walker the first request carries no cursor, the request for
\* page k+1 carries the cursor page k returned, no page is requested after a
\* page with an empty cursor or without a retained item, and the list returned
\* is the retained items of the pages in the order fetched (retained: not older
\* than the cutoff and within the limit, which cuts the last page only).
C33_CursorsChained ==
    /\ Len(sent) = Len(pages) /\ Len(got) = Len(pages)
    /\ Len(sent) >= 1 => sent[1] = NoCursor
    /\ \A k \in 1..(Len(sent) - 1) : sent[k + 1] = got[k]
    /\ \A k \in 1..(Len(pages) - 1) : got[k] # NoCursor /\ Retains(k)
    /\ WalkOk => ret = (IF LimitInForce > 0 THEN FirstN(AllKept, LimitInForce) ELSE AllKept)

\* a walk of two pages under a cutoff that dropped an item and returned the rest
C33_Witness ==
    /\ WalkOk /\ Len(pages) = 2 /\ since > 0
    /\ sent[2] = got[1] /\ got[1] # NoCursor
    /\ Len(ret) > Len(Kept(pages[1], since))
    /\ Len(ret) < Len(Flatten(pages))

(***************************************************************************)
(* Termination of the walkers (checked under FairCeiling).                 *)
(***************************************************************************)
\* the ceiling of a walk without limit: 1000 pages, 500 for a user walk without
\* cutoff, and for a search without cutoff the 20 pages of its 1000 results
C34_PageCeiling ==
    IF since > 0 \/ walker = "subreddit" THEN 1000
    ELSE IF walker = "search" THEN 20
    ELSE 500

\* the same page over and over, i times
SamePages(i) == [j \in 1..(i * Len(SamePage)) |-> SamePage[((j - 1) % Len(SamePage)) + 1]]

\* C34: a walker returns after a number of fetches bounded by a ceiling that is
\* fixed before the first fetch, even when upstream never runs dry and
\* limit = -1; it then returns the items accumulated, without error.
C34_StopsAtCeiling ==
    /\ [](pageCount <= (IF limit = -1 THEN C34_PageCeiling ELSE 50))
    /\ []((WalkDone /\ limit = -1) => (werr = "nil" /\ ret = SamePages(pageCount)))
    /\ <>WalkDone

\* a walk without limit that went on to its ceiling and returned all it had
C34_Witness ==
    /\ WalkDone /\ limit = -1 /\ stopReason = "ceiling" /\ werr = "nil"
    /\ pageCount = 1000 /\ Len(ret) = 1000 * Len(SamePage)

(***************************************************************************)
(* The cursor of the caller of /search (checked under SpecHandler).        *)
(***************************************************************************)
\* C35: the cursor the caller of /search gives in `after` goes out as `after=`
\* with the first upstream search request; later requests carry the cursor the
\* page before returned.
C35_CallerCursorSent ==
    (endpoint = "search" /\ Len(sent) >= 1) =>
        /\ sent[1] = query.after
        /\ \A k \in 1..(Len(sent) - 1) : sent[k + 1] = got[k]

(***************************************************************************)
(* The attempts of FetchMoreComments (checked under SpecClient).           *)
(***************************************************************************)
\* C36: one FetchMoreComments call makes at most 3 attempts, returns the body
\* of the first attempt that succeeds, sleeps before each re-attempt, sleeps
\* the 30 s that follow a 429 only when another attempt follows, and after 3
\* failed attempts returns an error that wraps the last one.
C36_ThreeAttempts ==
    caller = "more" =>
        /\ retry <= 3
        /\ fpc = "sleep" => (retry \in 1..2 /\ dret.kind = "err")
        /\ fpc = "sleep429" => (Contains429(dret) /\ retry + 1 < 3)
        /\ (fpc = "done" /\ fret.kind = "ok") => (retry < 3 /\ fret = dret)
        /\ (fpc = "done" /\ fret.kind = "err") =>
              (retry = 3 /\ dret.kind = "err" /\ fret.cause = dret.msg)

(***************************************************************************)
(* Properties of the ids sent to load-more (checked under SpecIds).        *)
(***************************************************************************)
\* the ids of all the requests of one task, in batch order
RequestedIds == Flatten(rgot.requests)

\* C37: the child ids a task sends to load-more carry no t1_ prefix, are never
\* "continue", go out in requests of at most 100 ids, and no id is requested
\* twice over all the requests of the task, also when the child list repeats
\* an id across the cut between two requests.
C37_IdsCleanAndUnique ==
    rgot # <<>> =>
        /\ \A k \in 1..Len(rgot.requests) : Len(rgot.requests[k]) <= 100
        /\ \A i \in 1..Len(RequestedIds) :
              /\ RequestedIds[i][1] = "c"
              /\ \A j \in 1..Len(RequestedIds) : RequestedIds[i] = RequestedIds[j] => i = j

(***************************************************************************)
(* Tasks for what is already in the tree (checked under SpecFull).         *)
(***************************************************************************)
\* the ids of the comments proper of a forest
PlainIds(f) == {c.id : c \in {d \in CommentsIn(f, 1) : ~d.isMore}}

\* every child id of the task is a comment that the run has put into the tree
AllGrafted(task, f) ==
    LET ids == ValidIDs(task.CommentIDs)
    IN /\ Len(ids) > 0
       /\ \A j \in 1..Len(ids) : ids[j] \in PlainIds(f) \ PlainIds(initial)

\* C38: once the comments of a set of child ids are fetched and grafted, no later
\* round emits a task for the same child ids; with an upstream that answers
\* every load-more request with all the comments asked for and no further more
\* node, the run is left for want of tasks, not at the stuck limit.
C38_NoTaskForGrafted ==
    /\ [][(epc = "find" /\ epc' = "fetch") =>
             \A i \in 1..Len(tasks') : ~AllGrafted(tasks'[i], forest)]_vars
    /\ []((Returned /\ ~cancelled) => exitReason = "noTasks")

(***************************************************************************)
(* Properties of ScrapeUserActivity (checked under SpecActivity).          *)
(***************************************************************************)
\* C39: ScrapeUserActivity never deadlocks: after the profile request both
\* goroutines run to their end without blocking on their result channel, the
\* function returns only after both have ended, when both walkers succeed the
\* activity holds exactly the list of each, and when the profile request fails
\* no walker is started.
C39_NoDeadlock ==
    /\ apc # "done" => ENABLED NextActivity
    /\ \A w \in Walkers2 : gr[w].pc = "send" => chans[w].buf = <<>>
    /\ apc \in {"check", "done"} =>
          \/ \A w \in Walkers2 : gr[w].pc = "done"
          \/ \A w \in Walkers2 : gr[w].pc = "none"
    /\ (apc = "done" /\ \A w \in Walkers2 : gr[w].pc = "done" /\ errs[w] = "nil") =>
          /\ activity.err = "nil"
          /\ activity.Posts = gr["posts"].list
          /\ activity.Comments = gr["comments"].list
    /\ (apc = "done" /\ activity.err \in {"fetch user info", "parse user info"}) =>
          \A w \in Walkers2 : gr[w].pc = "none"

\* both walkers succeeded and the activity holds the two posts and the one comment
C39_Witness ==
    /\ apc = "done" /\ activity.err = "nil"
    /\ Len(activity.Posts) = 2 /\ Len(activity.Comments) = 1
    /\ activity.Posts[1].of = "posts" /\ activity.Comments[1].of = "comments"

(***************************************************************************)
(* What Do hands back (checked under SpecClient).                          *)
(***************************************************************************)
\* C40: Do never returns a nil response with a nil error and never dereferences
\* a response it does not have: whatever maxRetries is, zero and negative
\* included, it returns the response of an attempt or an error.
C40_ResponseOrError ==
    dpc = "done" =>
        /\ dret.kind \in {"ok", "err"}
        /\ dret.kind = "ok" => tries >= 1

====
